---- MODULE Spec2Model ----
(***************************************************************************)
(* The backtracking shift-reduce engine of sympad.py (lalr1.Parser), the   *)
(* autocomplete hooks and the result ranking of sparser.Parser.            *)
(*                                                                         *)
(* The engine is table driven.  The tables used here are the LALR(1)       *)
(* tables of a sub-grammar of the repository's grammar: the rules for      *)
(* addition, integrals, functions, parentheses and variables, with the     *)
(* chains of unit rules between them (whose callbacks return their         *)
(* argument) collapsed.  Symbol names are the repository's.  Texts are     *)
(* sequences of characters; the character U+222B (the integral sign,       *)
(* Parser._UINTG) is written "U+222B".                                     *)
(*                                                                         *)
(* Python lists are objects: a list is modelled as an index into `heap`,   *)
(* list [:] copies allocate a new object, in-place operations (append,     *)
(* insert, del, item assignment) rewrite the object.                       *)
(***************************************************************************)
EXTENDS Integers, Sequences, FiniteSets, TLC

\* ------------------------------------------------------------------ bounds
MaxLen == 3        \* a text is the concatenation of at most MaxLen pieces
MaxCalls == 3      \* parse calls on one parser instance (SpecCalls)
MaxResults == 3    \* collected results handed to the ranker (SpecRank)
MaxPos == 1        \* largest error position handed to the ranker (SpecRank)
MaxLex == 3        \* pieces in a text handed to the tokenizer alone (SpecLex)

\* ------------------------------------------------------- Python's None
None == <<"None">>
NoneIdx == -1      \* None where the other values are positions (erridx)
NoAct == 0         \* None where the other values are actions (act, conf)

\* ------------------------------------------------------------------- texts
UINTG == "U+222B"
Letters == {"x", "d", "p", "o", "w", "i", "f"}
Pieces ==
  { <<"x">>, <<"d", "x">>, <<"+">>, <<UINTG>>, <<"p", "o", "w">>,
    <<"(">>, <<")">>, <<" ">>, <<"#">> }

RECURSIVE TextsUpTo(_)
TextsUpTo(n) ==
  IF n = 0 THEN { <<>> }
  ELSE LET S == TextsUpTo(n - 1) IN S \cup { t \o p : t \in S, p \in Pieces }

\* longer texts: a conflict between shifting PLUS and reducing the integral
\* needs four tokens to end in acceptance
LongTexts ==
  { <<UINTG, "d", "x", "+", "x">>,
    <<UINTG, "x", "+", "d", "x">>,
    <<UINTG, "x", "+", "x", "+">>,
    <<UINTG, UINTG, "d", "x", "+", "d", "x">>,
    <<"(", UINTG, "d", "x", "+", "x">>,
    <<UINTG, "d", "x", "+", "x", "#">> }

Texts == TextsUpTo(MaxLen) \cup LongTexts

\* ------------------------------------------------------------------- lexer
Token(sym, text, pos) == [sym |-> sym, text |-> text, pos |-> pos]

\* the patterns of TOKENS that can match a character of the texts above, in
\* table order
TOKENS == <<"FUNC", "INTG", "IF", "VAR", "PARENL", "PARENR", "PLUS", "ignore">>

\* \w
IsWord(c) == c \in Letters

\* the names of AST.Func.PY that the letters above can spell
FUNCPY == { <<"p", "o", "w">> }

RECURSIVE WordRun(_, _)
WordRun(t, p) == IF p < Len(t) /\ IsWord(t[p + 1]) THEN 1 + WordRun(t, p + 1) ELSE 0

RECURSIVE SpaceRun(_, _)
SpaceRun(t, p) == IF p < Len(t) /\ t[p + 1] = " " THEN 1 + SpaceRun(t, p + 1) ELSE 0

\* length of the match of pattern `name` at 0-based position p, 0 if none
MatchLen(name, t, p) ==
  CASE name = "FUNC" ->
         LET ns == { n \in 1..(Len(t) - p) :
                       /\ SubSeq(t, p + 1, p + n) \in FUNCPY
                       /\ ~(p + n < Len(t) /\ IsWord(t[p + n + 1])) }
         IN IF ns = {} THEN 0 ELSE CHOOSE n \in ns : TRUE
    [] name = "INTG"   -> IF t[p + 1] = UINTG THEN 1 ELSE 0
    [] name = "IF"     -> IF p + 2 <= Len(t) /\ t[p + 1] = "i" /\ t[p + 2] = "f" THEN 2 ELSE 0
    [] name = "VAR"    -> WordRun(t, p)
    [] name = "PARENL" -> IF t[p + 1] = "(" THEN 1 ELSE 0
    [] name = "PARENR" -> IF t[p + 1] = ")" THEN 1 ELSE 0
    [] name = "PLUS"   -> IF t[p + 1] = "+" THEN 1 ELSE 0
    [] name = "ignore" -> SpaceRun(t, p)

\* index in TOKENS of the first pattern that matches at p, 0 if none
\* (tokrec is the alternation of the patterns in table order)
tokrec_match_longest(t, p) ==
  LET ms == { i \in 1..Len(TOKENS) : MatchLen(TOKENS[i], t, p) > 0 }
  IN IF ms = {} THEN 0
     ELSE CHOOSE i \in ms : \A j \in ms :
            \/ MatchLen(TOKENS[j], t, p) < MatchLen(TOKENS[i], t, p)
            \/ MatchLen(TOKENS[j], t, p) = MatchLen(TOKENS[i], t, p) /\ i <= j

tokrec_match(t, p) ==
  LET ms == { i \in 1..Len(TOKENS) : MatchLen(TOKENS[i], t, p) > 0 }
  IN IF ms = {} THEN 0 ELSE CHOOSE i \in ms : \A j \in ms : i <= j

RECURSIVE tokenize_loop(_, _, _)
tokenize_loop_skip(t, pos, tokens) ==
  IF pos < Len(t)
  THEN LET m == tokrec_match(t, pos) IN
       IF m = 0
       THEN tokenize_loop(t, pos + 1, tokens)
       ELSE LET n == MatchLen(TOKENS[m], t, pos) IN
            tokenize_loop(t, pos + n,
              IF TOKENS[m] # "ignore"
              THEN Append(tokens, Token(TOKENS[m], SubSeq(t, pos + 1, pos + n), pos))
              ELSE tokens)
  ELSE Append(tokens, Token("$end", <<>>, pos))

tokenize_loop(t, pos, tokens) ==
  IF pos < Len(t)
  THEN LET m == tokrec_match(t, pos) IN
       IF m = 0
       THEN Append(Append(tokens, Token("$err", <<t[pos + 1]>>, pos)),
                   Token("$end", <<>>, pos))
       ELSE LET n == MatchLen(TOKENS[m], t, pos) IN
            tokenize_loop(t, pos + n,
              IF TOKENS[m] # "ignore"
              THEN Append(tokens, Token(TOKENS[m], SubSeq(t, pos + 1, pos + n), pos))
              ELSE tokens)
  ELSE Append(tokens, Token("$end", <<>>, pos))

tokenize_twoends(t) == Append(tokenize_loop(t, 0, <<>>), Token("$end", <<>>, Len(t)))

tokenize(t) == tokenize_loop(t, 0, <<>>)

IsBlank_empty(t) == t = <<>>

\* text.strip () is empty
IsBlank(t) == \A i \in 1..Len(t) : t[i] = " "

\* ---------------------------------------------------------- grammar tables
\* rules [i] is Rule(i); rule 0 is the synthetic top rule
top == "expr_commas"

rules ==
  <<[lhs |-> "0", rhs |-> <<"expr_commas">>],
    [lhs |-> "expr_commas", rhs |-> <<"expr_add">>],
    [lhs |-> "expr_commas", rhs |-> <<>>],
    [lhs |-> "expr_add", rhs |-> <<"expr_add", "PLUS", "expr_int">>],
    [lhs |-> "expr_add", rhs |-> <<"expr_int">>],
    [lhs |-> "expr_int", rhs |-> <<"INTG", "expr_add">>],
    [lhs |-> "expr_int", rhs |-> <<"expr_func">>],
    [lhs |-> "expr_func", rhs |-> <<"FUNC", "expr_func_arg">>],
    [lhs |-> "expr_func", rhs |-> <<"expr_paren">>],
    [lhs |-> "expr_func_arg", rhs |-> <<"expr_func">>],
    [lhs |-> "expr_paren", rhs |-> <<"PARENL", "expr_commas", "PARENR">>],
    [lhs |-> "expr_paren", rhs |-> <<"expr_var">>],
    [lhs |-> "expr_var", rhs |-> <<"VAR">>]>>

terms ==
   0 :> ("$end" :> <<-2, 0>> @@ "INTG" :> <<4, 0>> @@ "FUNC" :> <<6, 0>> @@ "PARENL" :> <<8, 0>> @@ "VAR" :> <<10, 0>>) @@
   1 :> (<<>>) @@
   2 :> ("$end" :> <<-1, 0>> @@ "PLUS" :> <<11, 0>> @@ "PARENR" :> <<-1, 0>>) @@
   3 :> ("$end" :> <<-4, 0>> @@ "PLUS" :> <<-4, 0>> @@ "PARENR" :> <<-4, 0>>) @@
   4 :> ("INTG" :> <<4, 0>> @@ "FUNC" :> <<6, 0>> @@ "PARENL" :> <<8, 0>> @@ "VAR" :> <<10, 0>>) @@
   5 :> ("$end" :> <<-6, 0>> @@ "PLUS" :> <<-6, 0>> @@ "PARENR" :> <<-6, 0>>) @@
   6 :> ("FUNC" :> <<6, 0>> @@ "PARENL" :> <<8, 0>> @@ "VAR" :> <<10, 0>>) @@
   7 :> ("$end" :> <<-8, 0>> @@ "PLUS" :> <<-8, 0>> @@ "PARENR" :> <<-8, 0>>) @@
   8 :> ("INTG" :> <<4, 0>> @@ "FUNC" :> <<6, 0>> @@ "PARENL" :> <<8, 0>> @@ "PARENR" :> <<-2, 0>> @@ "VAR" :> <<10, 0>>) @@
   9 :> ("$end" :> <<-11, 0>> @@ "PLUS" :> <<-11, 0>> @@ "PARENR" :> <<-11, 0>>) @@
  10 :> ("$end" :> <<-12, 0>> @@ "PLUS" :> <<-12, 0>> @@ "PARENR" :> <<-12, 0>>) @@
  11 :> ("INTG" :> <<4, 0>> @@ "FUNC" :> <<6, 0>> @@ "PARENL" :> <<8, 0>> @@ "VAR" :> <<10, 0>>) @@
  12 :> ("$end" :> <<-5, 0>> @@ "PLUS" :> <<11, -5>> @@ "PARENR" :> <<-5, 0>>) @@
  13 :> ("$end" :> <<-7, 0>> @@ "PLUS" :> <<-7, 0>> @@ "PARENR" :> <<-7, 0>>) @@
  14 :> ("$end" :> <<-9, 0>> @@ "PLUS" :> <<-9, 0>> @@ "PARENR" :> <<-9, 0>>) @@
  15 :> ("PARENR" :> <<17, 0>>) @@
  16 :> ("$end" :> <<-3, 0>> @@ "PLUS" :> <<-3, 0>> @@ "PARENR" :> <<-3, 0>>) @@
  17 :> ("$end" :> <<-10, 0>> @@ "PLUS" :> <<-10, 0>> @@ "PARENR" :> <<-10, 0>>)

nterms ==
   0 :> ("expr_commas" :> 1 @@ "expr_add" :> 2 @@ "expr_int" :> 3 @@ "expr_func" :> 5 @@ "expr_paren" :> 7 @@ "expr_var" :> 9) @@
   1 :> (<<>>) @@
   2 :> (<<>>) @@
   3 :> (<<>>) @@
   4 :> ("expr_add" :> 12 @@ "expr_int" :> 3 @@ "expr_func" :> 5 @@ "expr_paren" :> 7 @@ "expr_var" :> 9) @@
   5 :> (<<>>) @@
   6 :> ("expr_func" :> 14 @@ "expr_func_arg" :> 13 @@ "expr_paren" :> 7 @@ "expr_var" :> 9) @@
   7 :> (<<>>) @@
   8 :> ("expr_commas" :> 15 @@ "expr_add" :> 2 @@ "expr_int" :> 3 @@ "expr_func" :> 5 @@ "expr_paren" :> 7 @@ "expr_var" :> 9) @@
   9 :> (<<>>) @@
  10 :> (<<>>) @@
  11 :> ("expr_int" :> 16 @@ "expr_func" :> 5 @@ "expr_paren" :> 7 @@ "expr_var" :> 9) @@
  12 :> (<<>>) @@
  13 :> (<<>>) @@
  14 :> (<<>>) @@
  15 :> (<<>>) @@
  16 :> (<<>>) @@
  17 :> (<<>>)

strules ==
   0 :> <<<<0, 0>>, <<1, 0>>, <<2, 0>>, <<3, 0>>, <<4, 0>>, <<5, 0>>, <<6, 0>>, <<7, 0>>, <<8, 0>>, <<10, 0>>, <<11, 0>>, <<12, 0>>>> @@
   1 :> <<<<0, 1>>>> @@
   2 :> <<<<1, 1>>, <<3, 1>>>> @@
   3 :> <<<<4, 1>>>> @@
   4 :> <<<<5, 1>>, <<3, 0>>, <<4, 0>>, <<5, 0>>, <<6, 0>>, <<7, 0>>, <<8, 0>>, <<10, 0>>, <<11, 0>>, <<12, 0>>>> @@
   5 :> <<<<6, 1>>>> @@
   6 :> <<<<7, 1>>, <<9, 0>>, <<7, 0>>, <<8, 0>>, <<10, 0>>, <<11, 0>>, <<12, 0>>>> @@
   7 :> <<<<8, 1>>>> @@
   8 :> <<<<10, 1>>, <<1, 0>>, <<2, 0>>, <<3, 0>>, <<4, 0>>, <<5, 0>>, <<6, 0>>, <<7, 0>>, <<8, 0>>, <<10, 0>>, <<11, 0>>, <<12, 0>>>> @@
   9 :> <<<<11, 1>>>> @@
  10 :> <<<<12, 1>>>> @@
  11 :> <<<<3, 2>>, <<5, 0>>, <<6, 0>>, <<7, 0>>, <<8, 0>>, <<10, 0>>, <<11, 0>>, <<12, 0>>>> @@
  12 :> <<<<5, 2>>, <<3, 1>>>> @@
  13 :> <<<<7, 2>>>> @@
  14 :> <<<<9, 1>>>> @@
  15 :> <<<<10, 2>>>> @@
  16 :> <<<<3, 3>>>> @@
  17 :> <<<<10, 3>>>>


Rule(i) == rules[i + 1]

\* terms [st].get (sym, (None, None))
TermsGet(st, sym) == IF sym \in DOMAIN terms[st] THEN terms[st][sym] ELSE <<NoAct, NoAct>>

\* ------------------------------------------------------------------- trees
VarNull == <<"@", <<>>>>

is_var(ast) == ast[1] = "@"
is_null_var(ast) == is_var(ast) /\ ast[2] = <<>>
is_differential(ast) == is_var(ast) /\ Len(ast[2]) > 1 /\ ast[2][1] = "d"
is_comma(ast) == ast[1] = ","

flatcat(op, ast0, ast1) ==
  IF ast0[1] = op
  THEN IF ast1[1] = op THEN <<op, ast0[2] \o ast1[2]>> ELSE <<op, Append(ast0[2], ast1)>>
  ELSE IF ast1[1] = op THEN <<op, <<ast0>> \o ast1[2]>> ELSE <<op, <<ast0, ast1>>>>

\* ast.strip (): all enclosing parentheses and curlys removed
RECURSIVE strip(_)
strip(ast) == IF ast[1] \in {"(", "{"} THEN strip(ast[2]) ELSE ast

Front(s) == SubSeq(s, 1, Len(s) - 1)

\* <<ast or None, differential or None>>
RECURSIVE ast_strip_tail_differential(_)
ast_strip_tail_differential(ast) ==
  IF is_differential(ast) \/ is_null_var(ast) THEN <<None, ast>>
  ELSE IF ast[1] = "intg" /\ ast[2] # None
  THEN LET r == ast_strip_tail_differential(ast[2]) IN
       IF r[2] # None THEN << <<"intg", r[1], r[2]>>, ast[3] >> ELSE <<ast, None>>
  ELSE IF ast[1] = "*"
  THEN LET r == ast_strip_tail_differential(ast[2][Len(ast[2])]) IN
       IF r[2] # None
       THEN IF r[1] # None THEN << <<"*", Append(Front(ast[2]), r[1])>>, r[2] >>
            ELSE IF Len(ast[2]) > 2 THEN << <<"*", Front(ast[2])>>, r[2] >>
            ELSE <<ast[2][1], r[2]>>
       ELSE <<ast, None>>
  ELSE IF ast[1] = "+"
  THEN LET r == ast_strip_tail_differential(ast[2][Len(ast[2])]) IN
       IF r[2] # None /\ r[1] # None
       THEN << <<"+", Append(Front(ast[2]), r[1])>>, r[2] >>
       ELSE <<ast, None>>
  ELSE <<ast, None>>

\* the outcome of a reduction callback
Returns(red) == <<"return", red>>
RaisesSyntaxError == <<"SyntaxError", None>>
RaisesIncomplete(red) == <<"Incomplete", red>>

expr_int(ast) ==
  LET r == ast_strip_tail_differential(ast) IN
  IF r[2] # None THEN Returns(<<"intg", r[1], r[2]>>) ELSE RaisesSyntaxError

xlat_func_Pow(ast) ==
  IF ~is_comma(ast) THEN RaisesIncomplete(<<"^", ast, VarNull>>)
  ELSE IF Len(ast[2]) = 0 THEN RaisesIncomplete(<<"^", VarNull, VarNull>>)
  ELSE IF Len(ast[2]) = 1 THEN RaisesIncomplete(<<"^", ast[2][1], VarNull>>)
  ELSE IF Len(ast[2]) = 2
  THEN IF is_null_var(ast[2][2]) THEN RaisesIncomplete(<<"^", ast[2][1], ast[2][2]>>)
       ELSE Returns(<<"^", ast[2][1], ast[2][2]>>)
  ELSE RaisesSyntaxError

\* _expr_func_func for the function "pow", whose translation is _xlat_func_Pow
expr_func_func(FUNC, expr_func_arg) ==
  LET a    == strip(expr_func_arg)
      args == IF is_comma(a) THEN a[2] ELSE <<a>>
      arg  == IF Len(args) = 1 THEN args[1] ELSE <<",", args>>
  IN xlat_func_Pow(strip(<<"(", arg>>))

\* rfuncs [irule] (*args): the callback of rule irule on the values of the
\* popped stack entries
rfuncs(irule, args) ==
  CASE irule = 1  -> Returns(args[1])
    [] irule = 2  -> Returns(<<",", <<>>>>)
    [] irule = 3  -> Returns(flatcat("+", args[1], args[3]))
    [] irule = 4  -> Returns(args[1])
    [] irule = 5  -> expr_int(args[2])
    [] irule = 6  -> Returns(args[1])
    [] irule = 7  -> expr_func_func(args[1], args[2])
    [] irule = 8  -> Returns(args[1])
    [] irule = 9  -> Returns(args[1])
    [] irule = 10 -> Returns(<<"(", args[2]>>)
    [] irule = 11 -> Returns(args[1])
    [] irule = 12 -> Returns(<<"@", args[1][2].text>>)

RECURSIVE remove_curlys(_)
remove_curlys(ast) ==
  CASE ast[1] = "{" -> remove_curlys(ast[2])
    [] ast[1] \in {"@"} -> ast
    [] ast[1] \in {"(", "|"} -> <<ast[1], remove_curlys(ast[2])>>
    [] ast[1] \in {",", "+", "*"} ->
         <<ast[1], [i \in 1..Len(ast[2]) |-> remove_curlys(ast[2][i])]>>
    [] ast[1] = "^" -> <<"^", remove_curlys(ast[2]), remove_curlys(ast[3])>>
    [] ast[1] = "intg" ->
         <<"intg", IF ast[2] = None THEN None ELSE remove_curlys(ast[2]), remove_curlys(ast[3])>>

\* ------------------------------------------------------------------- state
VARIABLES
  mode,            \* "strict": lalr1.Parser hooks; "permissive": sparser.Parser hooks
  calls,           \* parse calls made on this instance
  pc,              \* position of the running parse call
  text,            \* argument of the running parse call
  heap,            \* the list objects
  tokens,          \* locals of lalr1.Parser.parse: tokens and stack are lists
  tokidx,
  cstack,
  stack,
  stidx,
  rederr,
  tok,
  act,
  conf,
  self_tokens,     \* instance attributes assigned on a stuck condition
  self_tokidx,
  self_stack,
  self_stidx,
  self_tok,
  self_rederr,
  parse_results,   \* instance attributes of sparser.Parser
  autocomplete,
  autocompleting,
  erridx,
  result,          \* what the call returned or raised
  restored,        \* history: the state at the push of the last conflict record
                   \* popped, and the state its pop left
  returned,        \* history: first result returned for each text
  accepted,        \* history: branches of the running call that were accepted
  hist             \* history: what the engine did in the running call, counted

engine == <<tokens, tokidx, cstack, stack, stidx, rederr, tok, act, conf>>
selfattrs == <<self_tokens, self_tokidx, self_stack, self_stidx, self_tok, self_rederr>>
extra == <<parse_results, autocomplete, autocompleting, erridx>>
vars == <<mode, calls, pc, text, heap, engine, selfattrs, extra, result, restored, returned,
          accepted, hist>>

NoTok == Token("None", <<>>, NoneIdx)

\* history of a call that has done nothing yet: conflict records pushed,
\* branches abandoned, calls of the error hook, calls of the success hook,
\* acceptances, tokens the error hook inserted
NoHist == [pushes |-> 0, stucks |-> 0, errhooks |-> 0, sucshooks |-> 0, accepts |-> 0,
           inserted |-> 0]
NoList == 0

\* State (idx, sym, red) and State (idx, tok); the last element is the value
\* handed to reduction callbacks
State_noval(idx, sym, red) == [idx |-> idx, sym |-> sym, val |-> None]

State(idx, sym, red) == [idx |-> idx, sym |-> sym, val |-> red]
StateTok(idx, t) == [idx |-> idx, sym |-> t.sym, val |-> <<"tok", t>>]

\* a new list object holding l
Alloc(h, l) == Append(h, l)
NewId(h) == Len(h) + 1

ListCopy_alias(h, id) == [heap |-> h, id |-> id]

\* list [:], the new object and the heap holding it
ListCopy(h, id) == [heap |-> Alloc(h, h[id]), id |-> NewId(h)]

\* list.insert (i, x), i 0-based
ListInsert_after(l, i, x) == SubSeq(l, 1, i + 1) \o <<x>> \o SubSeq(l, i + 2, Len(l))

ListInsert(l, i, x) == SubSeq(l, 1, i) \o <<x>> \o SubSeq(l, i + 1, Len(l))

Init ==
  /\ mode \in {"strict", "permissive"}
  /\ calls = 0
  /\ pc = "idle"
  /\ text = <<>>
  /\ heap = <<>>
  /\ tokens = NoList /\ tokidx = 0 /\ cstack = <<>> /\ stack = NoList /\ stidx = 0
  /\ rederr = None /\ tok = NoTok /\ act = NoAct /\ conf = NoAct
  /\ self_tokens = NoList /\ self_tokidx = 0 /\ self_stack = NoList /\ self_stidx = 0
  /\ self_tok = NoTok /\ self_rederr = None
  /\ parse_results = <<>> /\ autocomplete = NoList /\ autocompleting = FALSE
  /\ erridx = NoneIdx
  /\ result = None
  /\ restored = None
  /\ returned = <<>>
  /\ accepted = 0
  /\ hist = NoHist

\* ------------------------------------------------------------------- hooks
\* The hooks read and write the parser instance; `self` is a record of the
\* attributes they touch, with the heap.
_AUTOCOMPLETE_SUBSTITUTE ==
  [ s \in {"CARET1", "SUB1", "FRAC2", "FRAC1", "expr_super", "caret_or_doublestar"} |->
      CASE s = "CARET1" -> "CARET"
        [] s = "SUB1" -> "SUB"
        [] s = "FRAC2" -> "FRAC"
        [] s = "FRAC1" -> "FRAC"
        [] s = "expr_super" -> "CARET"
        [] s = "caret_or_doublestar" -> "CARET" ]

_AUTOCOMPLETE_CONTINUE ==
  [ s \in {"RIGHT", "COMMA", "PARENL", "PARENR", "CURLYR", "BRACKR", "BAR"} |->
      CASE s = "RIGHT" -> <<" ", "\\", "r", "i", "g", "h", "t">>
        [] s = "COMMA" -> <<",">>
        [] s = "PARENL" -> <<"(">>
        [] s = "PARENR" -> <<")">>
        [] s = "CURLYR" -> <<"}">>
        [] s = "BRACKR" -> <<"]">>
        [] s = "BAR" -> <<"|">> ]

InTOKENS(sym) == \E i \in 1..Len(TOKENS) : TOKENS[i] = sym

\* the variable names of AST.CONSTS that the letters above can spell
CONSTS == { <<"o", "o">> }

_mark_error_next(self) ==
  [self EXCEPT !.autocompleting = FALSE,
               !.erridx = IF self.erridx = NoneIdx
                          THEN self.heap[self.tokens][self.tokidx + 1].pos + 1
                          ELSE self.erridx]

_mark_error(self) ==
  [self EXCEPT !.autocompleting = FALSE,
               !.erridx = IF self.erridx = NoneIdx
                          THEN self.heap[self.tokens][self.tokidx + 1].pos
                          ELSE self.erridx]

insert_one_nomark(self, sym, at) ==
  IF InTOKENS(sym)
  THEN LET t == Token(IF sym \in DOMAIN _AUTOCOMPLETE_SUBSTITUTE
                      THEN _AUTOCOMPLETE_SUBSTITUTE[sym] ELSE sym, <<>>, self.tok.pos)
           s1 == [self EXCEPT !.heap[self.tokens] = ListInsert(@, at, t)]
       IN IF s1.autocompleting
          THEN IF sym \in DOMAIN _AUTOCOMPLETE_CONTINUE
               THEN [s1 EXCEPT !.heap[s1.autocomplete] = Append(@, _AUTOCOMPLETE_CONTINUE[sym])]
               ELSE [s1 EXCEPT !.autocompleting = FALSE]
          ELSE s1
  ELSE LET t == Token(IF sym \in DOMAIN _AUTOCOMPLETE_SUBSTITUTE
                      THEN _AUTOCOMPLETE_SUBSTITUTE[sym] ELSE "VAR", <<>>, self.tok.pos)
       IN [self EXCEPT !.heap[self.tokens] = ListInsert(@, at, t)]

\* one turn of the loop of _insert_symbol
insert_one(self, sym, at) ==
  IF InTOKENS(sym)
  THEN LET t == Token(IF sym \in DOMAIN _AUTOCOMPLETE_SUBSTITUTE
                      THEN _AUTOCOMPLETE_SUBSTITUTE[sym] ELSE sym, <<>>, self.tok.pos)
           s1 == [self EXCEPT !.heap[self.tokens] = ListInsert(@, at, t)]
       IN IF s1.autocompleting
          THEN IF sym \in DOMAIN _AUTOCOMPLETE_CONTINUE
               THEN [s1 EXCEPT !.heap[s1.autocomplete] = Append(@, _AUTOCOMPLETE_CONTINUE[sym])]
               ELSE [s1 EXCEPT !.autocompleting = FALSE]
          ELSE s1
  ELSE LET t == Token(IF sym \in DOMAIN _AUTOCOMPLETE_SUBSTITUTE
                      THEN _AUTOCOMPLETE_SUBSTITUTE[sym] ELSE "VAR", <<>>, self.tok.pos)
       IN _mark_error([self EXCEPT !.heap[self.tokens] = ListInsert(@, at, t)])

RECURSIVE insert_loop(_, _, _)
insert_loop(self, syms, at) ==
  IF syms = <<>> THEN self
  ELSE insert_loop(insert_one(self, Head(syms), at), Tail(syms), at + 1)

_insert_symbol_marking(self, syms, tokinc) ==
  insert_loop(_mark_error([self EXCEPT !.tokidx = @ + tokinc]), syms, self.tokidx)

\* syms is the tuple of symbols; the hook returns True
_insert_symbol(self, syms, tokinc) ==
  insert_loop([self EXCEPT !.tokidx = @ + tokinc], syms, self.tokidx)

\* tokens [i], i 0-based, negative from the end
TokensAt(self, i) ==
  self.heap[self.tokens][IF i < 0 THEN Len(self.heap[self.tokens]) + i + 1 ELSE i + 1]

\* stack [-k]
StackAt(self, k) == self.heap[self.stack][Len(self.heap[self.stack]) - k + 1]

\* the bracket of the expression list is never CURLYL under these tables; the
\* vector and matrix completions behind that test are left out
_parse_autocomplete_expr_commas(self, rule, pos) ==
  LET k == pos - (IF StackAt(self, pos).sym = "LEFT" THEN 1 ELSE 0)
      s1 == IF TokensAt(self, self.tokidx - 1).sym = "COMMA"
            THEN _mark_error(self) ELSE self
  IN IF StackAt(s1, k + 1).sym = "LEFT"
     THEN _insert_symbol(s1, <<"RIGHT">>, 0)
     ELSE _insert_symbol(s1, <<IF StackAt(s1, k).sym = "PARENL" THEN "PARENR" ELSE "BRACKR">>, 0)

\* names of the variables of a tree that are not differentials
RECURSIVE expr_vars_of(_)
expr_vars_of(ast) ==
  IF ast = None THEN {}
  ELSE IF is_var(ast) THEN (IF is_differential(ast) THEN {} ELSE {ast[2]})
  ELSE IF ast[1] \in {"+", "*", ","}
       THEN UNION { expr_vars_of(ast[2][i]) : i \in 1..Len(ast[2]) }
  ELSE UNION { expr_vars_of(ast[i]) : i \in 2..Len(ast) }

_parse_autocomplete_expr_int_idx(self) ==
  LET s == StackAt(self, 1)
      n == Len(self.heap[self.stack])
      s1 == [self EXCEPT !.heap[self.stack][n] = State(0, s.sym, <<"*", <<s.val, VarNull>>>>)]
      expr_vars == (IF self.autocompleting THEN expr_vars_of(s.val) ELSE {}) \ CONSTS
  IN IF Cardinality(expr_vars) = 1
     THEN [s1 EXCEPT !.heap[s1.autocomplete] =
             Append(@, <<" ", "d">> \o (CHOOSE v \in expr_vars : TRUE))]
     ELSE _mark_error(s1)

_parse_autocomplete_expr_int(self) ==
  LET s == StackAt(self, 1)
      n == Len(self.heap[self.stack])
      s1 == [self EXCEPT !.heap[self.stack][n] = State(s.idx, s.sym, <<"*", <<s.val, VarNull>>>>)]
      expr_vars == (IF self.autocompleting THEN expr_vars_of(s.val) ELSE {}) \ CONSTS
  IN IF Cardinality(expr_vars) = 1
     THEN [s1 EXCEPT !.heap[s1.autocomplete] =
             Append(@, <<" ", "d">> \o (CHOOSE v \in expr_vars : TRUE))]
     ELSE _mark_error(s1)

\* base hooks of lalr1.Parser
base_parse_getextrastate(self) == [estate |-> None, heap |-> self.heap]
base_parse_setextrastate(self, state) == self
base_parse_error(self) == [self |-> self, ret |-> FALSE]

\* hooks of sparser.Parser
\* the copy of the suggestions list is a new object; returns the record's
\* extra state and the new heap
parse_getextrastate_live(self) ==
  [estate |-> <<self.autocomplete, self.autocompleting, self.erridx>>, heap |-> self.heap]

parse_getextrastate(self) ==
  LET c == ListCopy(self.heap, self.autocomplete)
  IN [estate |-> <<c.id, self.autocompleting, self.erridx>>, heap |-> c.heap]

parse_setextrastate_keeperr(self, state) ==
  [self EXCEPT !.autocomplete = state[1], !.autocompleting = state[2]]

parse_setextrastate(self, state) ==
  [self EXCEPT !.autocomplete = state[1], !.autocompleting = state[2], !.erridx = state[3]]

\* (irule, pos) picked by parse_error
parse_error_rule(self) ==
  IF self.tokidx # 0 /\ TokensAt(self, self.tokidx - 1).sym = "LEFT"
  THEN LET S == strules[self.stidx]
           I == { i \in 1..Len(S) : Rule(S[i][1]).rhs[S[i][2] + 1] = "PARENL" }
       IN S[CHOOSE i \in I : \A j \in I : i <= j]
  ELSE strules[self.stidx][1]

parse_error_continue(self) ==
  IF self.rederr[1] = "Incomplete"
  THEN [self |-> self, ret |-> TRUE]
  ELSE IF self.tok.sym # "$end"
  THEN [self |-> [self EXCEPT
                    !.heap = Alloc(@, <<>>),
                    !.parse_results = Append(@, <<None, self.tok.pos, NewId(self.heap)>>)],
        ret |-> FALSE]
  ELSE LET ip == parse_error_rule(self)
           rule == Rule(ip[1])
           pos == ip[2]
       IN IF pos = 1 /\ rule.lhs = "expr_func" /\ rule.rhs = <<"FUNC", "expr_func_arg">>
          THEN [self |-> _insert_symbol(self, <<"PARENL", "PARENR">>, 0), ret |-> TRUE]
          ELSE IF pos # 0 /\ rule.rhs[pos] = "expr_commas"
          THEN [self |-> _parse_autocomplete_expr_commas(self, rule, pos), ret |-> TRUE]
          ELSE IF pos >= Len(rule.rhs)
          THEN IF rule.lhs = "expr_int"
               THEN [self |-> _parse_autocomplete_expr_int(self), ret |-> TRUE]
               ELSE [self |-> self, ret |-> FALSE]
          ELSE [self |-> _insert_symbol(self, <<rule.rhs[pos + 1]>>, 0), ret |-> TRUE]

parse_error(self) ==
  IF self.rederr[1] = "Incomplete"
  THEN [self |-> [self EXCEPT
                    !.heap = Alloc(@, <<>>),
                    !.parse_results = Append(@, <<self.rederr[2], self.tok.pos, NewId(self.heap)>>)],
        ret |-> FALSE]
  ELSE IF self.tok.sym # "$end"
  THEN [self |-> [self EXCEPT
                    !.heap = Alloc(@, <<>>),
                    !.parse_results = Append(@, <<None, self.tok.pos, NewId(self.heap)>>)],
        ret |-> FALSE]
  ELSE LET ip == parse_error_rule(self)
           rule == Rule(ip[1])
           pos == ip[2]
       IN IF pos = 1 /\ rule.lhs = "expr_func" /\ rule.rhs = <<"FUNC", "expr_func_arg">>
          THEN [self |-> _insert_symbol(self, <<"PARENL", "PARENR">>, 0), ret |-> TRUE]
          ELSE IF pos # 0 /\ rule.rhs[pos] = "expr_commas"
          THEN [self |-> _parse_autocomplete_expr_commas(self, rule, pos), ret |-> TRUE]
          ELSE IF pos >= Len(rule.rhs)
          THEN IF rule.lhs = "expr_int"
               THEN [self |-> _parse_autocomplete_expr_int(self), ret |-> TRUE]
               ELSE [self |-> self, ret |-> FALSE]
          ELSE [self |-> _insert_symbol(self, <<rule.rhs[pos + 1]>>, 0), ret |-> TRUE]

parse_reset_keep(self) ==
  [self EXCEPT !.heap = Alloc(@, <<>>),
               !.autocomplete = NewId(self.heap),
               !.autocompleting = TRUE,
               !.erridx = NoneIdx]

\* the assignments sparser.Parser.parse makes before it runs the engine
parse_reset(self) ==
  [self EXCEPT !.heap = Alloc(@, <<>>),
               !.parse_results = <<>>,
               !.autocomplete = NewId(self.heap),
               !.autocompleting = TRUE,
               !.erridx = NoneIdx]

parse_success_end(self, red) ==
  [self EXCEPT !.parse_results =
     Append(@, <<red, IF self.erridx = NoneIdx THEN self.tok.pos ELSE self.erridx,
                 self.autocomplete>>)]

\* returns True
parse_success(self, red) ==
  [self EXCEPT !.parse_results = Append(@, <<red, self.erridx, self.autocomplete>>)]

\* ------------------------------------------------------------------ ranking
NegErr_last(e) == IF e = NoneIdx THEN <<1, 0 - MaxPos>> ELSE <<1, 0 - e>>

\* -e if e is not None else float ('-inf'), as a pair ordered like the number
NegErr(e) == IF e = NoneIdx THEN <<0, 0>> ELSE <<1, 0 - e>>

RateKey_nonefirst(res, i) ==
  <<IF res[i + 1][1] = None THEN 0 ELSE 1, NegErr(res[i + 1][2]), Len(res[i + 1][3]), i>>

\* the sort key of result i (0-based) of a list of (r, e, a)
RateKey(res, i) ==
  <<IF res[i + 1][1] = None THEN 1 ELSE 0, NegErr(res[i + 1][2]), Len(res[i + 1][3]), i>>

KeyLess_smallerpos(k, l) ==
  \/ k[1] < l[1]
  \/ k[1] = l[1] /\ k[2][1] < l[2][1]
  \/ k[1] = l[1] /\ k[2][1] = l[2][1] /\ k[2][2] > l[2][2]
  \/ k[1] = l[1] /\ k[2] = l[2] /\ k[3] < l[3]
  \/ k[1] = l[1] /\ k[2] = l[2] /\ k[3] = l[3] /\ k[4] < l[4]

\* tuple comparison of two keys; the index makes keys distinct, so the fifth
\* element of the tuples is never compared
KeyLess(k, l) ==
  \/ k[1] < l[1]
  \/ k[1] = l[1] /\ k[2][1] < l[2][1]
  \/ k[1] = l[1] /\ k[2][1] = l[2][1] /\ k[2][2] < l[2][2]
  \/ k[1] = l[1] /\ k[2] = l[2] /\ k[3] < l[3]
  \/ k[1] = l[1] /\ k[2] = l[2] /\ k[3] = l[3] /\ k[4] < l[4]

\* sorted (...): the indexes of the results in rated order
rated(res) ==
  SortSeq([i \in 1..Len(res) |-> i - 1], LAMBDA i, j : KeyLess(RateKey(res, i), RateKey(res, j)))

SelectedIndex_last(res) == rated(res)[Len(res)]

\* res = next (iter (rated)) [-1]
SelectedIndex(res) == rated(res)[1]

\* what sparser.Parser.parse returns for the collected results
rank_return(res) ==
  IF res = <<>> THEN <<None, 0, <<>>>>
  ELSE LET r == res[SelectedIndex(res) + 1]
       IN IF r[1] # None THEN <<remove_curlys(r[1]), r[2], r[3]>> ELSE r

\* the collected results with the contents of their suggestion lists
ResultsOf(h, results) == [i \in 1..Len(results) |-> <<results[i][1], results[i][2], h[results[i][3]]>>]

\* ------------------------------------------------------------------ engine
has_parse_success_never == FALSE

\* parse_success.__doc__ != 'NO PARSE_SUCCESS'
has_parse_success == mode = "permissive"

\* the token and the table entry the top of the loop works with: looked up
\* when no reduction error is pending, else left from the turn before
CurTok == IF rederr = None THEN heap[tokens][tokidx + 1] ELSE tok
CurAct == IF rederr = None THEN TermsGet(stidx, CurTok.sym) ELSE <<act, conf>>

Stuck == pc = "loop" /\ (rederr # None \/ CurAct[1] = NoAct)

Accepting_anytoken ==
  /\ stidx = 1
  /\ Len(heap[stack]) = 2
  /\ heap[stack][2].sym = Rule(0).rhs[1]

Accepting ==
  /\ CurTok.sym = "$end"
  /\ stidx = 1
  /\ Len(heap[stack]) = 2
  /\ heap[stack][2].sym = Rule(0).rhs[1]

\* the instance after the assignment of the engine's locals to its attributes
SelfNow ==
  [heap |-> heap, tokens |-> tokens, tokidx |-> tokidx, stack |-> stack,
   stidx |-> stidx, tok |-> CurTok, rederr |-> rederr,
   parse_results |-> parse_results, autocomplete |-> autocomplete,
   autocompleting |-> autocompleting, erridx |-> erridx]

Hook == IF mode = "permissive" THEN parse_error(SelfNow) ELSE base_parse_error(SelfNow)

GetExtraState(self) ==
  IF mode = "permissive" THEN parse_getextrastate(self) ELSE base_parse_getextrastate(self)

SetExtraState(self, state) ==
  IF mode = "permissive" THEN parse_setextrastate(self, state)
  ELSE base_parse_setextrastate(self, state)

\* history: what a conflict record is to bring back
View(h, tk, ti, st, si, ac, acing, ei) ==
  [tokens |-> h[tk], tokidx |-> ti, stack |-> h[st], stidx |-> si,
   extra |-> IF mode = "permissive" THEN <<h[ac], acing, ei>> ELSE None]

\* the attributes a stuck condition assigns; the conflict stack attribute is
\* the local list itself and no hook reads it
SetSelf(self) ==
  /\ self_tokens' = self.tokens
  /\ self_tokidx' = self.tokidx
  /\ self_stack' = self.stack
  /\ self_stidx' = self.stidx
  /\ self_tok' = self.tok
  /\ self_rederr' = self.rederr

PopConflict_fifo(self) ==
  LET rec == cstack[1]
      s1 == SetExtraState(self, rec.estate)
  IN /\ cstack' = Tail(cstack)
     /\ act' = rec.act
     /\ conf' = CurAct[2]
     /\ tokens' = rec.tokens
     /\ tokidx' = rec.tokidx
     /\ stack' = rec.stack
     /\ stidx' = rec.stidx
     /\ tok' = self.heap[rec.tokens][rec.tokidx + 1]
     /\ heap' = s1.heap
     /\ parse_results' = s1.parse_results
     /\ autocomplete' = s1.autocomplete
     /\ autocompleting' = s1.autocompleting
     /\ erridx' = s1.erridx
     /\ restored' = <<"popped", rec.pushed,
                      View(s1.heap, rec.tokens, rec.tokidx, rec.stack, rec.stidx,
                           s1.autocomplete, s1.autocompleting, s1.erridx)>>
     /\ pc' = "act"

\* cstack.pop () of a stuck condition, on the instance the hooks left
PopConflict(self) ==
  LET rec == cstack[Len(cstack)]
      s1 == SetExtraState(self, rec.estate)
  IN /\ cstack' = Front(cstack)
     /\ act' = rec.act
     /\ conf' = CurAct[2]
     /\ tokens' = rec.tokens
     /\ tokidx' = rec.tokidx
     /\ stack' = rec.stack
     /\ stidx' = rec.stidx
     /\ tok' = self.heap[rec.tokens][rec.tokidx + 1]
     /\ heap' = s1.heap
     /\ parse_results' = s1.parse_results
     /\ autocomplete' = s1.autocomplete
     /\ autocompleting' = s1.autocompleting
     /\ erridx' = s1.erridx
     /\ restored' = <<"popped", rec.pushed,
                      View(s1.heap, rec.tokens, rec.tokidx, rec.stack, rec.stidx,
                           s1.autocomplete, s1.autocompleting, s1.erridx)>>
     /\ pc' = "act"

\* the entry of a parse call: sparser.Parser.parse up to the engine's loop
Start(t) ==
  /\ calls' = calls + 1
  /\ text' = t
  /\ IF mode = "permissive" /\ IsBlank(t)
     THEN /\ result' = <<"triple", VarNull, 0, <<>>>>
          /\ pc' = "done"
          /\ UNCHANGED <<heap, engine, extra>>
     ELSE /\ result' = None
          /\ pc' = "loop"
          /\ LET s0 == [heap |-> heap, parse_results |-> parse_results,
                        autocomplete |-> autocomplete, autocompleting |-> autocompleting,
                        erridx |-> erridx]
                 s1 == IF mode = "permissive" THEN parse_reset(s0) ELSE s0
             IN /\ heap' = s1.heap \o << tokenize(t), <<State(0, "None", None)>> >>
                /\ tokens' = Len(s1.heap) + 1
                /\ stack' = Len(s1.heap) + 2
                /\ parse_results' = s1.parse_results
                /\ autocomplete' = s1.autocomplete
                /\ autocompleting' = s1.autocompleting
                /\ erridx' = s1.erridx
          /\ tokidx' = 0
          /\ cstack' = <<>>
          /\ stidx' = 0
          /\ rederr' = None
          /\ tok' = NoTok /\ act' = NoAct /\ conf' = NoAct
  /\ accepted' = 0
  /\ hist' = NoHist
  /\ UNCHANGED <<mode, selfattrs, restored>>

ParseCall(t) ==
  /\ pc = "idle"
  /\ Start(t)
  /\ UNCHANGED returned

Lookup_nopush ==
  /\ pc = "loop"
  /\ rederr = None
  /\ CurAct[1] # NoAct
  /\ tok' = CurTok
  /\ act' = CurAct[1]
  /\ conf' = CurAct[2]
  /\ pc' = "act"
  /\ UNCHANGED <<mode, calls, text, heap, tokens, tokidx, cstack, stack, stidx, rederr,
                 selfattrs, extra, result, restored, returned, accepted, hist>>

\* a table entry exists: the conflicting alternative, if any, is recorded
Lookup ==
  /\ pc = "loop"
  /\ rederr = None
  /\ CurAct[1] # NoAct
  /\ tok' = CurTok
  /\ act' = CurAct[1]
  /\ conf' = CurAct[2]
  /\ IF CurAct[2] # NoAct
     THEN LET c1 == ListCopy(heap, tokens)
              c2 == ListCopy(c1.heap, stack)
              es == GetExtraState([SelfNow EXCEPT !.heap = c2.heap])
          IN /\ cstack' = Append(cstack,
                   [act |-> CurAct[2], tokens |-> c1.id, tokidx |-> tokidx,
                    stack |-> c2.id, stidx |-> stidx, estate |-> es.estate,
                    pushed |-> View(heap, tokens, tokidx, stack, stidx,
                                    autocomplete, autocompleting, erridx),
                    serial |-> hist.pushes + 1])
             /\ heap' = es.heap
     ELSE UNCHANGED <<cstack, heap>>
  /\ pc' = "act"
  /\ hist' = IF CurAct[2] # NoAct THEN [hist EXCEPT !.pushes = @ + 1] ELSE hist
  /\ UNCHANGED <<mode, calls, text, tokens, tokidx, stack, stidx, rederr, selfattrs,
                 extra, result, restored, returned, accepted>>

Accept_stop ==
  /\ Stuck
  /\ Accepting
  /\ SetSelf(SelfNow)
  /\ rederr' = None
  /\ IF ~has_parse_success
     THEN /\ result' = <<"value", heap[stack][2].val>>
          /\ pc' = "done"
          /\ tok' = CurTok /\ act' = CurAct[1] /\ conf' = CurAct[2]
          /\ UNCHANGED <<heap, tokens, tokidx, cstack, stack, stidx, extra, restored>>
     ELSE LET s1 == parse_success(SelfNow, heap[stack][2].val)
          IN /\ parse_results' = s1.parse_results
             /\ pc' = "rank"
             /\ tok' = CurTok /\ act' = CurAct[1] /\ conf' = CurAct[2]
             /\ UNCHANGED <<heap, tokens, tokidx, cstack, stack, stidx, autocomplete,
                            autocompleting, erridx, result, restored>>
  /\ accepted' = IF has_parse_success THEN accepted + 1 ELSE accepted
  /\ hist' = [hist EXCEPT !.accepts = @ + 1,
                          !.sucshooks = IF has_parse_success THEN @ + 1 ELSE @]
  /\ UNCHANGED <<mode, calls, text, returned>>

\* stuck at the accepting configuration
Accept ==
  /\ Stuck
  /\ Accepting
  /\ SetSelf(SelfNow)
  /\ rederr' = None
  /\ IF ~has_parse_success
     THEN /\ result' = <<"value", heap[stack][2].val>>
          /\ pc' = "done"
          /\ tok' = CurTok /\ act' = CurAct[1] /\ conf' = CurAct[2]
          /\ UNCHANGED <<heap, tokens, tokidx, cstack, stack, stidx, extra, restored>>
     ELSE LET s1 == parse_success(SelfNow, heap[stack][2].val)
          IN IF cstack = <<>>
             THEN /\ parse_results' = s1.parse_results
                  /\ pc' = "rank"
                  /\ tok' = CurTok /\ act' = CurAct[1] /\ conf' = CurAct[2]
                  /\ UNCHANGED <<heap, tokens, tokidx, cstack, stack, stidx, autocomplete,
                                 autocompleting, erridx, result, restored>>
             ELSE /\ PopConflict(s1)
                  /\ UNCHANGED result
  /\ accepted' = IF has_parse_success THEN accepted + 1 ELSE accepted
  /\ hist' = [hist EXCEPT !.accepts = @ + 1,
                          !.sucshooks = IF has_parse_success THEN @ + 1 ELSE @]
  /\ UNCHANGED <<mode, calls, text, returned>>

\* stuck, and the error hook repaired the state
Recover ==
  /\ Stuck
  /\ ~Accepting
  /\ Hook.ret
  /\ SetSelf(Hook.self)
  /\ rederr' = None
  /\ tok' = CurTok /\ act' = CurAct[1] /\ conf' = CurAct[2]
  /\ heap' = Hook.self.heap
  /\ tokidx' = Hook.self.tokidx
  /\ stidx' = Hook.self.stidx
  /\ parse_results' = Hook.self.parse_results
  /\ autocomplete' = Hook.self.autocomplete
  /\ autocompleting' = Hook.self.autocompleting
  /\ erridx' = Hook.self.erridx
  /\ pc' = "loop"
  /\ hist' = [hist EXCEPT !.errhooks = @ + 1,
                          !.inserted = @ + Len(Hook.self.heap[tokens]) - Len(heap[tokens])]
  /\ UNCHANGED <<mode, calls, text, tokens, cstack, stack, result, restored, returned, accepted>>

\* stuck, not repaired, and a conflict record remains
Backtrack_keep ==
  /\ Stuck
  /\ ~Accepting
  /\ ~Hook.ret
  /\ cstack # <<>>
  /\ SetSelf(Hook.self)
  /\ rederr' = None
  /\ LET rec == cstack[Len(cstack)]
         s1 == SetExtraState(Hook.self, rec.estate)
     IN /\ cstack' = cstack
        /\ act' = rec.act
        /\ conf' = CurAct[2]
        /\ tokens' = rec.tokens
        /\ tokidx' = rec.tokidx
        /\ stack' = rec.stack
        /\ stidx' = rec.stidx
        /\ tok' = Hook.self.heap[rec.tokens][rec.tokidx + 1]
        /\ heap' = s1.heap
        /\ parse_results' = s1.parse_results
        /\ autocomplete' = s1.autocomplete
        /\ autocompleting' = s1.autocompleting
        /\ erridx' = s1.erridx
        /\ restored' = <<"popped", rec.pushed,
                         View(s1.heap, rec.tokens, rec.tokidx, rec.stack, rec.stidx,
                              s1.autocomplete, s1.autocompleting, s1.erridx)>>
        /\ pc' = "act"
  /\ hist' = [hist EXCEPT !.errhooks = @ + 1, !.stucks = @ + 1]
  /\ UNCHANGED <<mode, calls, text, result, returned, accepted>>

Backtrack ==
  /\ Stuck
  /\ ~Accepting
  /\ ~Hook.ret
  /\ cstack # <<>>
  /\ SetSelf(Hook.self)
  /\ rederr' = None
  /\ PopConflict(Hook.self)
  /\ hist' = [hist EXCEPT !.errhooks = @ + 1, !.stucks = @ + 1]
  /\ UNCHANGED <<mode, calls, text, result, returned, accepted>>

SyntaxErrorOf_pos(src, t) ==
  <<"SyntaxError",
    IF t.sym = "$end" THEN <<"unexpected end of input">>
    ELSE IF t.sym = "$err" THEN <<"invalid token", t.text>>
    ELSE <<"invalid syntax",
           SubSeq(src, t.pos + 1, IF t.pos + 16 < Len(src) THEN t.pos + 16 ELSE Len(src))>>,
    t.pos>>

\* the exception raised: its message, as the fixed part and the quoted part,
\* and its offset attribute, which the constructor leaves None
SyntaxErrorOf(src, t) ==
  <<"SyntaxError",
    IF t.sym = "$end" THEN <<"unexpected end of input">>
    ELSE IF t.sym = "$err" THEN <<"invalid token", t.text>>
    ELSE <<"invalid syntax",
           SubSeq(src, t.pos + 1, IF t.pos + 16 < Len(src) THEN t.pos + 16 ELSE Len(src))>>,
    NoneIdx>>

Fail_early ==
  /\ Stuck
  /\ ~Accepting
  /\ ~Hook.ret
  /\ SetSelf(Hook.self)
  /\ rederr' = None
  /\ tok' = CurTok /\ act' = CurAct[1] /\ conf' = CurAct[2]
  /\ heap' = Hook.self.heap
  /\ parse_results' = Hook.self.parse_results
  /\ IF has_parse_success
     THEN pc' = "rank" /\ UNCHANGED result
     ELSE pc' = "raised" /\ result' = SyntaxErrorOf(text, CurTok)
  /\ hist' = [hist EXCEPT !.errhooks = @ + 1, !.stucks = @ + 1]
  /\ UNCHANGED <<mode, calls, text, tokens, tokidx, cstack, stack, stidx, autocomplete,
                 autocompleting, erridx, restored, returned, accepted>>

\* stuck, not repaired, and no conflict record remains
Fail ==
  /\ Stuck
  /\ ~Accepting
  /\ ~Hook.ret
  /\ cstack = <<>>
  /\ SetSelf(Hook.self)
  /\ rederr' = None
  /\ tok' = CurTok /\ act' = CurAct[1] /\ conf' = CurAct[2]
  /\ heap' = Hook.self.heap
  /\ parse_results' = Hook.self.parse_results
  /\ IF has_parse_success
     THEN pc' = "rank" /\ UNCHANGED result
     ELSE pc' = "raised" /\ result' = SyntaxErrorOf(text, CurTok)
  /\ hist' = [hist EXCEPT !.errhooks = @ + 1, !.stucks = @ + 1]
  /\ UNCHANGED <<mode, calls, text, tokens, tokidx, cstack, stack, stidx, autocomplete,
                 autocompleting, erridx, restored, returned, accepted>>

Shift ==
  /\ pc = "act"
  /\ act > 0
  /\ tokidx' = tokidx + 1
  /\ stidx' = act
  /\ heap' = [heap EXCEPT ![stack] = Append(@, StateTok(act, tok))]
  /\ pc' = "loop"
  /\ UNCHANGED <<mode, calls, text, tokens, cstack, stack, rederr, tok, act, conf,
                 selfattrs, extra, result, restored, returned, accepted, hist>>

Reduce_popfirst ==
  /\ pc = "act"
  /\ act < 0
  /\ LET rule == Rule(0 - act)
         n == Len(rule.rhs)
         L == heap[stack]
         args == [i \in 1..n |-> L[Len(L) - n + i].val]
         out == rfuncs(0 - act, args)
     IN IF out[1] = "SyntaxError"
        THEN /\ rederr' = out
             /\ heap' = [heap EXCEPT ![stack] = SubSeq(L, 1, Len(L) - n)]
             /\ UNCHANGED stidx
        ELSE LET L1 == SubSeq(L, 1, Len(L) - n)
                 st == nterms[L1[Len(L1)].idx][rule.lhs]
             IN /\ rederr' = IF out[1] = "Incomplete" THEN out ELSE rederr
                /\ stidx' = st
                /\ heap' = [heap EXCEPT ![stack] = Append(L1, State(st, rule.lhs, out[2]))]
  /\ pc' = "loop"
  /\ UNCHANGED <<mode, calls, text, tokens, tokidx, cstack, stack, tok, act, conf,
                 selfattrs, extra, result, restored, returned, accepted, hist>>

Reduce ==
  /\ pc = "act"
  /\ act < 0
  /\ LET rule == Rule(0 - act)
         n == Len(rule.rhs)
         L == heap[stack]
         args == [i \in 1..n |-> L[Len(L) - n + i].val]
         out == rfuncs(0 - act, args)
     IN IF out[1] = "SyntaxError"
        THEN /\ rederr' = out
             /\ UNCHANGED <<heap, stidx>>
        ELSE LET L1 == SubSeq(L, 1, Len(L) - n)
                 st == nterms[L1[Len(L1)].idx][rule.lhs]
             IN /\ rederr' = IF out[1] = "Incomplete" THEN out ELSE rederr
                /\ stidx' = st
                /\ heap' = [heap EXCEPT ![stack] = Append(L1, State(st, rule.lhs, out[2]))]
  /\ pc' = "loop"
  /\ UNCHANGED <<mode, calls, text, tokens, tokidx, cstack, stack, tok, act, conf,
                 selfattrs, extra, result, restored, returned, accepted, hist>>

\* sparser.Parser.parse after the engine returned
Rank ==
  /\ pc = "rank"
  /\ result' = <<"triple">> \o rank_return(ResultsOf(heap, parse_results))
  /\ pc' = "done"
  /\ UNCHANGED <<mode, calls, text, heap, engine, selfattrs, extra, restored, returned, accepted,
                 hist>>

Engine == Lookup \/ Accept \/ Recover \/ Backtrack \/ Fail \/ Shift \/ Reduce \/ Rank

\* one parse call on a new parser
Next == (\E t \in Texts : ParseCall(t)) \/ Engine

Spec == Init /\ [][Next]_vars

\* a parse call is one synchronous run of the loop: it has no suspension
\* point, so a step of the engine that can be taken is taken
SpecLive == Init /\ [][Next]_vars /\ WF_vars(Engine)

\* ----------------------------------------------- calls on one parser instance
CallTexts ==
  { <<"x">>, <<"x", "+">>, <<"(", "x">>, <<UINTG, "x", "+">>, <<UINTG, "x">>,
    <<"x", "#">>, <<" ">>, <<UINTG, "d", "x", "+", "x">> }

\* a further call on the same instance; the result of the call before is
\* kept, under its text, if it is the first for that text
ParseAgain(t) ==
  /\ pc \in {"done", "raised"}
  /\ calls < MaxCalls
  /\ returned' = IF text \in DOMAIN returned THEN returned ELSE returned @@ (text :> result)
  /\ Start(t)

NextCalls ==
  \/ \E t \in CallTexts : ParseCall(t)
  \/ \E t \in CallTexts : ParseAgain(t)
  \/ Engine

SpecCalls == Init /\ [][NextCalls]_vars

\* ------------------------------------------------------------------- claims
\* C1: a conflict record, when popped, brings back the token sequence, the
\* token index, the parse stack, the state index and the extra state
\* (suggestions, autocompleting flag, error position) exactly as they were
\* when the record was pushed, whatever the abandoned branch did since
C1_RestoreExact == restored[1] = "popped" => restored[2] = restored[3]

\* a record was popped after the abandoned branch had both inserted tokens
\* into its token list and rewritten its stack
C1_Witness ==
  /\ restored[1] = "popped"
  /\ mode = "permissive"
  /\ heap[self_tokens] # restored[2].tokens
  /\ heap[self_stack] # restored[2].stack
  /\ heap[self_tokens] # heap[tokens]

\* C2: a parse call returns what the first call with the same text on the
\* same instance returned, whatever was parsed in between
C2_SameTextSameResult ==
  (pc \in {"done", "raised"} /\ text \in DOMAIN returned) => result = returned[text]

\* the third call repeats the text of an earlier call, another text with
\* collected results, suggestions and an error position lay in between
C2_Witness ==
  /\ pc = "done"
  /\ calls = 3
  /\ text = <<UINTG, "x", "+">>
  /\ text \in DOMAIN returned
  /\ <<"(", "x">> \in DOMAIN returned
  /\ mode = "permissive"

\* ---------------------------------------------------------------- language
\* The language of the grammar: the token sequences with a derivation from
\* the top symbol all of whose reduction callbacks return.  Derive gives the
\* values of those derivations; it reads the rules and the callbacks, not
\* the action tables.
IsTerminal(sym) == \A i \in 1..Len(rules) : rules[i].lhs # sym

\* fewest tokens a symbol derives: only the expression list can be empty
MinLen(sym) == IF sym = top THEN 0 ELSE 1

RECURSIVE MinLenSeq(_)
MinLenSeq(rhs) == IF rhs = <<>> THEN 0 ELSE MinLen(Head(rhs)) + MinLenSeq(Tail(rhs))

RECURSIVE Derive(_, _)
RECURSIVE DeriveSeq(_, _)
Derive(sym, toks) ==
  IF IsTerminal(sym)
  THEN IF Len(toks) = 1 /\ toks[1].sym = sym THEN { <<"tok", toks[1]>> } ELSE {}
  ELSE UNION { { rfuncs(i, args)[2] : args \in { a \in DeriveSeq(Rule(i).rhs, toks) :
                                                    rfuncs(i, a)[1] = "return" } } :
               i \in { j \in 1..(Len(rules) - 1) : Rule(j).lhs = sym } }

DeriveSeq(rhs, toks) ==
  IF rhs = <<>> THEN (IF toks = <<>> THEN { <<>> } ELSE {})
  ELSE UNION { LET V == Derive(Head(rhs), SubSeq(toks, 1, k))
               IN IF V = {} THEN {}
                  ELSE { <<v>> \o r : v \in V,
                           r \in DeriveSeq(Tail(rhs), SubSeq(toks, k + 1, Len(toks))) } :
               k \in 0..(Len(toks) - MinLenSeq(Tail(rhs))) }

\* the tokens of a text before $end
TokensOf(t) == Front(tokenize(t))

HasErrToken(t) == \E i \in 1..Len(tokenize(t)) : tokenize(t)[i].sym = "$err"

InLanguage(t) == Derive(top, TokensOf(t)) # {}

\* position of the $end token
EndPos(t) == tokenize(t)[Len(tokenize(t))].pos

Finished == pc = "done" /\ mode = "permissive"

\* C3, as stated: for a text of the language without $err token, parse
\* returns a value, the end-of-input position as error position and no
\* suggestions
C3_AsStated ==
  (Finished /\ ~HasErrToken(text) /\ InLanguage(text)) =>
     /\ result[2] # None
     /\ result[3] = EndPos(text)
     /\ result[4] = <<>>

\* C3, amended: for a text of the language without $err token, permissive
\* parse returns a value and no suggestions, with no error position (none,
\* not the end-of-input position) unless the text is blank, for which it
\* returns the null variable with error position 0; strict parse returns a
\* value and does not raise
C3_Totality ==
  (pc \in {"done", "raised"} /\ ~HasErrToken(text) /\ InLanguage(text)) =>
     IF mode = "strict" THEN pc = "done" /\ result[1] = "value" /\ result[2] # None
     ELSE IF IsBlank(text) THEN result = <<"triple", VarNull, 0, <<>>>>
     ELSE /\ result[2] # None
          /\ result[3] = NoneIdx
          /\ result[4] = <<>>

\* a text of the language was parsed with a conflict, two results were
\* collected and ranked
C3_Witness ==
  /\ Finished
  /\ Len(parse_results) = 2
  /\ ~HasErrToken(text)
  /\ InLanguage(text)

\* C4, as stated: for a text outside the language, permissive parse returns
\* a none value or a value with an error position below len(text)
C4_AsStated ==
  (Finished /\ ~InLanguage(text)) =>
     \/ result[2] = None
     \/ result[3] # NoneIdx /\ result[3] < Len(text)

\* C4, amended: for a text outside the language, permissive parse returns a
\* result whose error position is none or a position up to and including
\* len(text); a none value comes with a position and no suggestions
C4_Degradation ==
  (Finished /\ ~InLanguage(text)) =>
     /\ result[3] = NoneIdx \/ (0 <= result[3] /\ result[3] <= Len(text))
     /\ result[2] = None => (result[3] # NoneIdx /\ result[4] = <<>>)

\* a text outside the language was given a value whose error position is
\* len(text)
C4_Witness ==
  /\ Finished
  /\ ~InLanguage(text)
  /\ result[2] # None
  /\ result[3] = Len(text)

\* ------------------------------------------------- the ranker on its own
\* The ranking of sparser.Parser.parse applied to lists of collected
\* results of the shapes the hooks record: (None, position, []) from
\* parse_error, (value, position or None, suggestions) from parse_success.
RankTexts == { <<"x">> }
RankHeap == << <<>>, << <<")">> >> >>
RankValues == { <<"@", <<"x">>>>, <<"{", <<"@", <<"x">>>>>> }

RankEntries ==
  { <<None, e, 1>> : e \in 0..MaxPos }
    \cup { <<v, e, a>> : v \in RankValues, e \in {NoneIdx} \cup 0..MaxPos, a \in 1..Len(RankHeap) }

RankLists == UNION { [1..n -> RankEntries] : n \in 0..MaxResults }

InitRank ==
  /\ mode = "permissive"
  /\ calls = 1
  /\ pc = "rank"
  /\ text \in RankTexts
  /\ heap = RankHeap
  /\ tokens = NoList /\ tokidx = 0 /\ cstack = <<>> /\ stack = NoList /\ stidx = 0
  /\ rederr = None /\ tok = NoTok /\ act = NoAct /\ conf = NoAct
  /\ self_tokens = NoList /\ self_tokidx = 0 /\ self_stack = NoList /\ self_stidx = 0
  /\ self_tok = NoTok /\ self_rederr = None
  /\ parse_results \in RankLists
  /\ autocomplete = 1 /\ autocompleting = FALSE
  /\ erridx = NoneIdx
  /\ result = None
  /\ restored = None
  /\ returned = <<>>
  /\ accepted = 0
  /\ hist = NoHist

NextRank == Rank

SpecRank == InitRank /\ [][NextRank]_vars

\* ------------------------------------------------------ the tokenizer alone
\* pieces on which several patterns of the table match at one position:
\* "if" (IF before VAR), "pow" (FUNC before VAR), letters, blanks, and a
\* character no pattern matches
LexPieces == { <<"i", "f">>, <<"x">>, <<"p", "o", "w">>, <<" ">>, <<"+">>, <<"#">> }

RECURSIVE LexTextsUpTo(_)
LexTextsUpTo(n) ==
  IF n = 0 THEN { <<>> }
  ELSE LET S == LexTextsUpTo(n - 1) IN S \cup { t \o p : t \in S, p \in LexPieces }

LexTexts == LexTextsUpTo(MaxLex)

InitLex ==
  /\ mode = "permissive"
  /\ calls = 1
  /\ pc = "lex"
  /\ text \in LexTexts
  /\ heap = <<>>
  /\ tokens = NoList /\ tokidx = 0 /\ cstack = <<>> /\ stack = NoList /\ stidx = 0
  /\ rederr = None /\ tok = NoTok /\ act = NoAct /\ conf = NoAct
  /\ self_tokens = NoList /\ self_tokidx = 0 /\ self_stack = NoList /\ self_stidx = 0
  /\ self_tok = NoTok /\ self_rederr = None
  /\ parse_results = <<>>
  /\ autocomplete = NoList /\ autocompleting = FALSE
  /\ erridx = NoneIdx
  /\ result = None
  /\ restored = None
  /\ returned = <<>>
  /\ accepted = 0
  /\ hist = NoHist

\* tokens = self.tokenize (text)
Tokenize ==
  /\ pc = "lex"
  /\ heap' = Append(heap, tokenize(text))
  /\ tokens' = Len(heap) + 1
  /\ pc' = "lexed"
  /\ UNCHANGED <<mode, calls, text, tokidx, cstack, stack, stidx, rederr, tok, act, conf,
                 self_tokens, self_tokidx, self_stack, self_stidx, self_tok, self_rederr,
                 parse_results, autocomplete, autocompleting, erridx, result, restored,
                 returned, accepted, hist>>

NextLex == Tokenize

SpecLex == InitLex /\ [][NextLex]_vars

\* the collected results, and the place (from 1) of result i (from 1) in the
\* rated order
Collected == ResultsOf(heap, parse_results)
Place(i) == CHOOSE k \in 1..Len(Collected) : rated(Collected)[k] = i - 1

\* what parse returns when result i is the one selected
ReturnOf(i) ==
  <<"triple", IF Collected[i][1] # None THEN remove_curlys(Collected[i][1]) ELSE None,
    Collected[i][2], Collected[i][3]>>

Ranked == pc = "done" /\ Collected # <<>>

HasValue(i) == Collected[i][1] # None
ErrPos(i) == Collected[i][2]
NSugg(i) == Len(Collected[i][3])
Results == 1..Len(Collected)

\* C5: of two results that both carry a tree and an error position, the one
\* with the larger position is ranked ahead; when they are the only two,
\* parse returns that one's tree (freed of its grouping braces), position
\* and suggestions
C5_LargerPositionFirst ==
  Ranked =>
    \A i, j \in Results :
      (HasValue(i) /\ HasValue(j) /\ ErrPos(i) # NoneIdx /\ ErrPos(j) # NoneIdx
         /\ ErrPos(i) > ErrPos(j)) =>
        /\ Place(i) < Place(j)
        /\ Len(Collected) = 2 => result = ReturnOf(i)

\* the result with the larger position was recorded second and has more
\* suggestions, and is returned
C5_Witness ==
  /\ Ranked
  /\ Len(Collected) = 2
  /\ HasValue(1) /\ HasValue(2)
  /\ ErrPos(1) # NoneIdx /\ ErrPos(2) > ErrPos(1)
  /\ NSugg(2) > NSugg(1)
  /\ result = ReturnOf(2)

\* C6: a result with a value is ranked ahead of every result without one,
\* whatever their positions and suggestion counts, and what parse returns is
\* one of the collected results (its tree freed of grouping braces)
C6_ValueFirst ==
  Ranked =>
    /\ \A i, j \in Results : (HasValue(i) /\ ~HasValue(j)) => Place(i) < Place(j)
    /\ (\E i \in Results : HasValue(i)) => result[2] # None
    /\ SelectedIndex(Collected) + 1 \in Results
    /\ result = ReturnOf(SelectedIndex(Collected) + 1)

\* a result without value, at the largest position and recorded first, lost
\* to a later result with a value, position 0 and a suggestion
C6_Witness ==
  /\ Ranked
  /\ Len(Collected) >= 2
  /\ ~HasValue(1) /\ ErrPos(1) = MaxPos
  /\ HasValue(2) /\ ErrPos(2) = 0 /\ NSugg(2) > 0
  /\ result = ReturnOf(2)

\* C7, as stated: a result without error position ties with a result whose
\* error position is that of $end, and the one with fewer suggestions is
\* returned
C7_AsStated ==
  (Ranked /\ Len(Collected) = 2) =>
    \A i, j \in Results :
      (HasValue(i) /\ HasValue(j) /\ ErrPos(i) = NoneIdx /\ ErrPos(j) = EndPos(text)
         /\ NSugg(j) < NSugg(i)) => result = ReturnOf(j)

\* C7, amended: a result without error position is ranked ahead of every
\* result of the same value-presence that has one, the position of $end
\* included, whatever their suggestion counts
C7_NoErrorFirst ==
  Ranked =>
    \A i, j \in Results :
      (HasValue(i) = HasValue(j) /\ ErrPos(i) = NoneIdx /\ ErrPos(j) # NoneIdx) =>
        /\ Place(i) < Place(j)
        /\ Len(Collected) = 2 => result = ReturnOf(i)

\* the result without error position was recorded second and has more
\* suggestions than the one at the position of $end, and is returned
C7_Witness ==
  /\ Ranked
  /\ Len(Collected) = 2
  /\ HasValue(1) /\ HasValue(2)
  /\ ErrPos(1) = EndPos(text) /\ ErrPos(2) = NoneIdx
  /\ NSugg(1) < NSugg(2)
  /\ result = ReturnOf(2)

\* C8: among results equal in value-presence and error position the one
\* with fewer suggestions is ranked ahead, and among those still equal the
\* one recorded earlier; when all collected results are so tied parse
\* returns the earliest of those with the fewest suggestions
C8_FewestThenEarliest ==
  Ranked =>
    /\ \A i, j \in Results :
         (HasValue(i) = HasValue(j) /\ ErrPos(i) = ErrPos(j)) =>
           /\ NSugg(i) < NSugg(j) => Place(i) < Place(j)
           /\ (NSugg(i) = NSugg(j) /\ i < j) => Place(i) < Place(j)
    /\ (\A i, j \in Results : HasValue(i) = HasValue(j) /\ ErrPos(i) = ErrPos(j)) =>
         \E i \in Results :
           /\ result = ReturnOf(i)
           /\ \A j \in Results : NSugg(i) <= NSugg(j)
           /\ \A j \in Results : (NSugg(j) = NSugg(i) /\ j # i) => i < j

\* three results tied in value-presence and position; the first has more
\* suggestions, the second and third tie, the second is returned
C8_Witness ==
  /\ Ranked
  /\ Len(Collected) = 3
  /\ \A i, j \in Results : HasValue(i) = HasValue(j) /\ ErrPos(i) = ErrPos(j)
  /\ NSugg(1) > NSugg(2) /\ NSugg(2) = NSugg(3)
  /\ Collected[2] # Collected[3]
  /\ result = ReturnOf(2)

\* the token at which the last branch of a strict call failed
Offending == self_tok

\* C9, as stated: the error raised in strict mode carries the position of
\* the offending token; for an unmatched character at position 1 it names
\* position 1
C9_AsStated ==
  (mode = "strict" /\ pc = "raised") => result[3] = Offending.pos

\* C9, amended: in strict mode parse raises SyntaxError exactly when no
\* branch is accepted; the message is 'unexpected end of input' when the
\* offending token is $end, 'invalid token' with the character when it is
\* $err, otherwise 'invalid syntax' with the text from the token's position
\* on (16 characters at most); the error carries no position
C9_StrictError ==
  (mode = "strict" /\ pc \in {"done", "raised"}) =>
     /\ (pc = "raised") = ~InLanguage(text)
     /\ pc = "raised" =>
          /\ result[1] = "SyntaxError"
          /\ result[3] = NoneIdx
          /\ Offending.sym = "$end" => result[2] = <<"unexpected end of input">>
          /\ Offending.sym = "$err" =>
               result[2] = <<"invalid token", <<text[Offending.pos + 1]>>>>
          /\ Offending.sym \notin {"$end", "$err"} =>
               /\ result[2][1] = "invalid syntax"
               /\ Len(result[2][2]) <= 16
               /\ \A i \in 1..Len(result[2][2]) : result[2][2][i] = text[Offending.pos + i]
               /\ Len(result[2][2]) = 16 \/ Offending.pos + Len(result[2][2]) = Len(text)

\* strict mode failed on an unmatched character at position 1
C9_Witness ==
  /\ mode = "strict"
  /\ pc = "raised"
  /\ text = <<"x", "#">>
  /\ Offending.sym = "$err" /\ Offending.pos = 1
  /\ result = <<"SyntaxError", <<"invalid token", <<"#">>>>, NoneIdx>>

\* C10, as stated: when no branch of a permissive call is accepted, the
\* engine returns without raising and parse returns a none value
C10_AsStated ==
  /\ mode = "permissive" => pc # "raised"
  /\ (Finished /\ ~IsBlank(text) /\ accepted = 0) => result[2] = None

\* C10, amended: a permissive call never raises; when no branch is
\* accepted parse returns the first-ranked collected result, whose value is
\* none unless a branch ended in a reduction that raised Incomplete: then it
\* is such a reduction's placeholder, with an error position and no
\* suggestions
C10_AllStuck ==
  /\ mode = "permissive" => pc # "raised"
  /\ (Finished /\ ~IsBlank(text) /\ accepted = 0) =>
       /\ result = <<"triple">> \o rank_return(Collected)
       /\ (result[2] = None) = (\A i \in Results : ~HasValue(i))
       /\ result[3] # NoneIdx
       /\ result[4] = <<>>

\* no branch was accepted, the single branch ended in an Incomplete
\* reduction after a repair, and a value was returned
C10_Witness ==
  /\ Finished
  /\ accepted = 0
  /\ self_rederr[1] = "Incomplete"
  /\ result[2] # None
  /\ cstack = <<>>

\* C11: in strict mode SyntaxError is raised only when the first branch and
\* the branch of every conflict record pushed got stuck and none was
\* accepted, and never for a text of the language; when a branch is accepted
\* the call returns the value of that branch, the first accepted in the order
\* of exploration, a value of a derivation of the text
C11_AmbiguityNotError ==
  mode = "strict" =>
    /\ pc = "raised" =>
         /\ result[1] = "SyntaxError"
         /\ cstack = <<>>
         /\ hist.accepts = 0
         /\ hist.stucks = hist.pushes + 1
         /\ ~InLanguage(text)
    /\ pc = "done" =>
         /\ hist.accepts = 1
         /\ hist.stucks <= hist.pushes
         /\ result = <<"value", heap[stack][2].val>>
         /\ result[2] \in Derive(top, TokensOf(text))

\* a strict call returned the value of a conflict alternative after the
\* branch explored first got stuck
C11_Witness ==
  /\ mode = "strict"
  /\ pc = "done"
  /\ hist.pushes >= 1
  /\ hist.stucks >= 1
  /\ hist.accepts = 1

\* the entry on top of the stack is the one a reduction to its symbol pushes:
\* the state is the goto of the state below
PushedAsReduced ==
  LET L == heap[stack]
  IN /\ Len(L) >= 2
     /\ L[Len(L)].idx = stidx
     /\ stidx = nterms[L[Len(L) - 1].idx][L[Len(L)].sym]

IncompletePending == pc = "loop" /\ rederr[1] = "Incomplete"

\* C12, as stated: after a reduction callback signalled incomplete the
\* placeholder is on the stack as the new nonterminal entry and the engine
\* goes on with the same branch: the branch is not abandoned
C12_AsStated ==
  [][IncompletePending =>
       /\ PushedAsReduced
       /\ heap[stack][Len(heap[stack])].val = rederr[2]
       /\ hist'.stucks = hist.stucks
       /\ pc' \in {"loop", "act"}
       /\ stack' = stack]_vars

\* C12, amended: after a reduction callback signalled incomplete the
\* placeholder is on the stack as the new nonterminal entry, exactly as after
\* a successful reduction, and the branch counts as stuck and is abandoned:
\* the permissive error hook appends (placeholder, position of the token at
\* hand, no suggestions) to the collected results and declines, the strict
\* one declines, and the engine pops a conflict record or ends the call
C12_IncompleteAbandons ==
  [][IncompletePending =>
       /\ PushedAsReduced
       /\ heap[stack][Len(heap[stack])].val = rederr[2]
       /\ hist'.stucks = hist.stucks + 1
       /\ hist'.inserted = hist.inserted
       /\ IF cstack = <<>>
          THEN pc' = (IF mode = "permissive" THEN "rank" ELSE "raised")
          ELSE cstack' = Front(cstack) /\ pc' = "act"
       /\ ResultsOf(heap', parse_results') =
            IF mode = "permissive"
            THEN Append(ResultsOf(heap, parse_results), <<rederr[2], tok.pos, <<>>>>)
            ELSE <<>>]_vars

\* a branch of a permissive call ended in a reduction that signalled
\* incomplete and its placeholder was recorded
C12_Witness ==
  /\ mode = "permissive"
  /\ pc = "rank"
  /\ self_rederr[1] = "Incomplete"
  /\ parse_results # <<>>
  /\ parse_results[Len(parse_results)][1] = self_rederr[2]

\* a text that ends right after a binary operator: a variable, PLUS, then
\* the end of input
EndsAfterOperator(t) ==
  /\ Len(TokensOf(t)) = 2
  /\ TokensOf(t)[1].sym = "VAR"
  /\ TokensOf(t)[2].sym = "PLUS"

\* Add (operand, placeholder) for such a text
AddPlaceholder(t) == <<"+", << <<"@", TokensOf(t)[1].text>>, VarNull >> >>

\* C13, as stated: for a text that ends right after a binary operator,
\* permissive parse returns Add(operand, placeholder), the position
\* of $end as error position, and a suggestion list that is not empty
C13_AsStated ==
  (Finished /\ EndsAfterOperator(text)) =>
     /\ result[2] = AddPlaceholder(text)
     /\ result[3] = EndPos(text)
     /\ result[4] # <<>>

\* C13, amended: for a text that ends right after a binary operator, the
\* one branch of permissive parse gets stuck at $end, the error hook inserts
\* one placeholder operand, and parse returns Add(operand, placeholder) with
\* the position of $end as error position and an empty suggestion list
C13_OperandPlaceholder ==
  (Finished /\ EndsAfterOperator(text)) =>
     /\ hist.inserted = 1
     /\ hist.errhooks = 1
     /\ hist.accepts = 1
     /\ self_tok.sym = "$end"
     /\ result[2] = AddPlaceholder(text)
     /\ result[3] = EndPos(text)
     /\ result[4] = <<>>

\* such a text was parsed, blanks after the operator included
C13_Witness ==
  /\ Finished
  /\ EndsAfterOperator(text)
  /\ EndPos(text) = 3
  /\ result[3] = 3

\* the positions of a text at which no pattern of the lexer matches, and the
\* first of them
Unmatched(t) == { p \in 0..(Len(t) - 1) : tokrec_match(t, p) = 0 }
FirstUnmatched(t) == CHOOSE p \in Unmatched(t) : \A q \in Unmatched(t) : p <= q

\* a call on a text with an unmatched character is running or has ended
ErrCall == pc # "idle" /\ Unmatched(text) # {}

\* C14: for a text with a character at position p that no pattern matches,
\* the $err token is never shifted, every branch gets stuck at a token at or
\* before p, the error hook inserts no tokens, no branch is accepted, and
\* permissive parse returns no result or a result whose error position is
\* at most p
C14_ErrTokenStops ==
  ErrCall =>
    LET p == FirstUnmatched(text)
    IN /\ \A i \in 1..Len(heap[stack]) : heap[stack][i].sym # "$err"
       /\ heap[tokens][tokidx + 1].pos <= p
       /\ hist.errhooks > 0 => self_tok.pos <= p /\ self_tok.sym # "$end"
       /\ hist.inserted = 0
       /\ hist.accepts = 0
       /\ pc # "done" \/ mode = "permissive"
       /\ Finished =>
            \/ result = <<"triple", None, 0, <<>>>>
            \/ result[3] # NoneIdx /\ result[3] <= p

\* a permissive call on such a text ended after a conflict: two branches
\* got stuck and the result carries the position of the character
C14_Witness ==
  /\ ErrCall
  /\ Finished
  /\ hist.pushes >= 1
  /\ hist.stucks = 2
  /\ result[3] = FirstUnmatched(text)

\* the names of the patterns that yield tokens
PatternNames == { TOKENS[i] : i \in 1..Len(TOKENS) } \ {"ignore"}

\* C15: tokenize returns for every text, unmatched characters or not, a
\* sequence of pattern tokens, then, exactly when a character matches no
\* pattern, one $err token carrying the first such character, then one $end
\* token, the last element and the only $end; the tokens before $err are
\* those of the text before the character, so nothing after it is scanned
C15_TokenizeShape ==
  pc # "idle" =>
    LET T == tokenize(text)
        n == Len(T)
        U == Unmatched(text)
        k == IF U = {} THEN n - 1 ELSE n - 2
    IN /\ n >= 1
       /\ T[n].sym = "$end" /\ T[n].text = <<>>
       /\ k >= 0
       /\ \A i \in 1..k : T[i].sym \in PatternNames /\ T[i].text # <<>>
       /\ U # {} =>
            LET p == FirstUnmatched(text)
            IN /\ T[n - 1] = Token("$err", <<text[p + 1]>>, p)
               /\ \A i \in 1..n : T[i].pos <= p
               /\ SubSeq(T, 1, k) = Front(tokenize(SubSeq(text, 1, p)))

\* a text was tokenized that has pattern tokens before an unmatched
\* character and more characters after it
C15_Witness ==
  /\ pc = "loop"
  /\ Unmatched(text) # {}
  /\ FirstUnmatched(text) >= 1
  /\ Len(text) > FirstUnmatched(text) + 1
  /\ Len(heap[tokens]) = 3

\* the tokens before $end lie at the start offsets of their matches, one
\* after the other
AtTheirOffsets(t) ==
  LET T == tokenize(t)
  IN /\ \A i \in 1..(Len(T) - 1) :
          SubSeq(t, T[i].pos + 1, T[i].pos + Len(T[i].text)) = T[i].text
     /\ \A i \in 1..(Len(T) - 2) : T[i].pos + Len(T[i].text) <= T[i + 1].pos

\* C16, as stated: the $end token lies at len(text) for every text, and the
\* positions along the token sequence are strictly increasing
C16_AsStated ==
  pc # "idle" =>
    LET T == tokenize(text)
    IN /\ EndPos(text) = Len(text)
       /\ AtTheirOffsets(text)
       /\ \A i \in 1..(Len(T) - 1) : T[i].pos < T[i + 1].pos

\* C16, amended: the $end token lies where scanning stopped: at len(text)
\* when every character is matched, else at the first unmatched character,
\* the position the $err token has too; the tokens before $end lie at the
\* start offsets of their matches, strictly increasing, none after $end
C16_EndPosition ==
  pc # "idle" =>
    LET T == tokenize(text)
    IN /\ EndPos(text) = IF Unmatched(text) = {} THEN Len(text) ELSE FirstUnmatched(text)
       /\ AtTheirOffsets(text)
       /\ \A i \in 1..(Len(T) - 2) : T[i].pos < T[i + 1].pos
       /\ Len(T) >= 2 =>
            IF T[Len(T) - 1].sym = "$err"
            THEN T[Len(T) - 1].pos = EndPos(text)
            ELSE T[Len(T) - 1].pos < EndPos(text)

\* a text with characters after an unmatched one was tokenized: $end lies
\* before len(text), on the $err token
C16_Witness ==
  /\ pc = "loop"
  /\ Unmatched(text) # {}
  /\ EndPos(text) >= 1
  /\ EndPos(text) + 1 < Len(text)
  /\ heap[tokens][Len(heap[tokens]) - 1].pos = EndPos(text)

\* an empty or whitespace-only text
OnlySpaces(t) == { t[i] : i \in 1..Len(t) } \subseteq {" "}

\* C17: a call of parse (of sparser.Parser) on an empty or whitespace-only
\* text returns the null variable with error position 0 and no suggestions
\* at once: the engine's locals, the list objects and the attributes of the
\* parser (collected results, suggestions, autocompleting flag, error
\* position, the attributes assigned on a stuck condition) stay as they were
C17_BlankUntouched ==
  [][(mode = "permissive" /\ calls' = calls + 1 /\ OnlySpaces(text')) =>
       /\ result' = <<"triple", VarNull, 0, <<>>>>
       /\ pc' = "done"
       /\ UNCHANGED <<heap, engine, selfattrs, extra>>]_vars

\* a whitespace-only text was parsed on a parser that an earlier call left
\* with collected results and an error position
C17_Witness ==
  /\ mode = "permissive"
  /\ pc = "done"
  /\ calls >= 2
  /\ text = <<" ">>
  /\ result = <<"triple", VarNull, 0, <<>>>>
  /\ parse_results # <<>>
  /\ erridx # NoneIdx

\* the step is a stuck condition that the permissive error hook repaired
Recovering == mode = "permissive" /\ Stuck /\ ~Accepting /\ Hook.ret

\* the symbols of the tokens the hook inserts at the token index
InsertedBy(self) ==
  LET n == Len(self.heap[tokens]) - Len(heap[tokens])
  IN { self.heap[tokens][tokidx + i].sym : i \in 1..n }

C19_HookThenPop ==
  [][(Stuck /\ Accepting) =>
       /\ hist'.accepts = hist.accepts + 1
       /\ IF mode = "permissive"
          THEN /\ hist'.sucshooks = hist.sucshooks + 1
               /\ hist.sucshooks = hist.accepts
               /\ Len(parse_results') = Len(parse_results) + 1
               /\ parse_results'[Len(parse_results')][1] = heap[stack][2].val
               /\ IF cstack # <<>>
                  THEN /\ cstack' = Front(cstack)
                       /\ pc' = "act"
                       /\ act' = cstack[Len(cstack)].act
                       /\ stack' = cstack[Len(cstack)].stack
                  ELSE /\ pc' = "rank"
                       /\ cstack' = cstack
          ELSE /\ hist'.sucshooks = 0
               /\ pc' = "done"
               /\ result' = <<"value", heap[stack][2].val>>]_vars

\* a branch was accepted with a conflict record left, the record was
\* popped and its branch accepted too: the hook ran twice
C19_Witness ==
  /\ Finished
  /\ hist.pushes = 1
  /\ hist.accepts = 2
  /\ hist.sucshooks = 2
  /\ hist.stucks = 0
  /\ restored[1] = "popped"

\* the token at hand is $end, the tables have no action for it, and the
\* stack is [state 0, top symbol]
AcceptConfig ==
  /\ CurTok.sym = "$end"
  /\ TermsGet(stidx, "$end")[1] = NoAct
  /\ Len(heap[stack]) = 2
  /\ heap[stack][1].idx = 0
  /\ heap[stack][2].sym = top

\* C20: a turn of the loop accepts the branch exactly when the token at
\* hand is $end, no action exists for it, and the stack holds the two
\* entries [state 0, top symbol]; in every other stuck configuration the
\* error hook is called and the branch is not accepted
C20_AcceptExactly ==
  [][pc = "loop" =>
       /\ (hist'.accepts = hist.accepts + 1) <=> AcceptConfig
       /\ AcceptConfig => (Stuck /\ hist'.errhooks = hist.errhooks)
       /\ (Stuck /\ ~AcceptConfig) =>
            (hist'.errhooks = hist.errhooks + 1 /\ hist'.accepts = hist.accepts)
       /\ ~Stuck => hist'.errhooks = hist.errhooks]_vars

\* a branch was accepted after it had been stuck at $end in another
\* configuration, which the error hook repaired
C20_Witness ==
  /\ pc \in {"rank", "done"}
  /\ mode = "permissive"
  /\ hist.accepts = 1
  /\ hist.errhooks = 1
  /\ hist.stucks = 0
  /\ self_tok.sym = "$end"
  /\ Len(heap[self_stack]) = 2

\* the table cell for the state and the token at hand is looked up and has
\* a conflict alternative
ConflictCell == pc = "loop" /\ rederr = None /\ CurAct[2] # NoAct

\* C21: when the cell looked up has a conflict alternative, a record with
\* the alternative action, copies of the tokens and of the stack as they
\* are before the primary action, the token index, the state index and the
\* extra state is pushed, and the primary action is applied after that; the
\* action of a popped record is carried out without a lookup and pushes
\* nothing: the conflict stack grows at the lookup of such a cell only
C21_PushBeforeAct ==
  [][/\ ConflictCell =>
          /\ Len(cstack') = Len(cstack) + 1
          /\ LET rec == cstack'[Len(cstack')]
             IN
             /\ cstack' = Append(cstack, rec)
             /\ rec.act = CurAct[2]
             /\ rec.tokens # tokens /\ heap'[rec.tokens] = heap[tokens]
             /\ rec.tokidx = tokidx
             /\ rec.stack # stack /\ heap'[rec.stack] = heap[stack]
             /\ rec.stidx = stidx
             /\ mode = "permissive" =>
                  /\ rec.estate[1] # autocomplete
                  /\ heap'[rec.estate[1]] = heap[autocomplete]
                  /\ rec.estate[2] = autocompleting
                  /\ rec.estate[3] = erridx
             /\ heap'[stack] = heap[stack] /\ tokidx' = tokidx /\ stidx' = stidx
             /\ act' = CurAct[1] /\ pc' = "act"
     /\ Len(cstack') > Len(cstack) => ConflictCell
     /\ pc = "act" => cstack' = cstack
     /\ Len(cstack') < Len(cstack) =>
          (pc' = "act" /\ act' = cstack[Len(cstack)].act /\ hist'.pushes = hist.pushes)]_vars

\* the alternative of a popped record is being carried out while a record
\* pushed before it is still on the conflict stack
C21_Witness ==
  /\ pc = "act"
  /\ restored[1] = "popped"
  /\ hist.pushes = 2
  /\ Len(cstack) = 1

\* the numbers, in order of pushing, of the records on the conflict stack
Serials(cs) == [i \in 1..Len(cs) |-> cs[i].serial]

\* C22: the conflict stack is kept in the order of pushing, and the record
\* popped, when the error hook declines or after an acceptance that goes
\* on, is the one pushed last among those on it; its alternative action is
\* carried out on its tokens and stack, and the record is off the stack
\* from then on, so none is resumed twice: the numbers of the records popped
\* during a call are all different
C22_LastInFirstOut ==
  [][/\ \A i \in 1..Len(cstack) : \A j \in 1..Len(cstack) :
          i < j => cstack[i].serial < cstack[j].serial
     /\ \A i \in 1..Len(cstack) : cstack[i].serial <= hist.pushes
     /\ Len(cstack') < Len(cstack) =>
          LET rec == cstack[Len(cstack)]
          IN /\ \A i \in 1..Len(cstack) : cstack[i].serial <= rec.serial
             /\ Stuck /\ (Accepting \/ ~Hook.ret)
             /\ cstack' = Front(cstack)
             /\ act' = rec.act /\ pc' = "act"
             /\ tokens' = rec.tokens /\ tokidx' = rec.tokidx
             /\ stack' = rec.stack /\ stidx' = rec.stidx
             /\ hist'.pushes = hist.pushes]_vars

\* two records were on the conflict stack and the one pushed second has
\* been popped, the first is still there
C22_Witness ==
  /\ pc = "act"
  /\ restored[1] = "popped"
  /\ hist.pushes = 2
  /\ Serials(cstack) = <<1>>

\* the action at hand is a reduce
ReduceStep == pc = "act" /\ act < 0

\* the values of the top len(rhs) stack entries, bottom to top
ReduceArgs ==
  LET n == Len(Rule(0 - act).rhs)
      L == heap[stack]
  IN [i \in 1..n |-> L[Len(L) - n + i].val]

\* C23: a reduce by rule R calls R's callback with the values of the top
\* len(R.rhs) stack entries, bottom to top (none for an empty rule); when it
\* returns, those entries are popped and one entry for R.lhs is pushed, with
\* the value returned and the goto of the state then on top; the tokens and
\* the token index stay as they are
C23_ReduceStep ==
  [][(ReduceStep /\ rfuncs(0 - act, ReduceArgs)[1] = "return") =>
       LET R == Rule(0 - act)
           n == Len(R.rhs)
           L == heap[stack]
           below == SubSeq(L, 1, Len(L) - n)
           goto == nterms[below[Len(below)].idx][R.lhs]
       IN /\ Len(ReduceArgs) = n
          /\ Len(L) > n
          /\ heap'[stack] =
               Append(below, [idx |-> goto, sym |-> R.lhs,
                              val |-> rfuncs(0 - act, ReduceArgs)[2]])
          /\ stack' = stack
          /\ stidx' = goto
          /\ tokidx' = tokidx
          /\ tokens' = tokens /\ heap'[tokens] = heap[tokens]
          /\ rederr' = None
          /\ pc' = "loop"]_vars

\* the sum of two different operands was reduced from three entries: its
\* operands are in the order of the text
C23_Witness ==
  /\ pc = "loop"
  /\ text = <<"x", "+", "d", "x">>
  /\ Len(heap[stack]) = 2
  /\ heap[stack][2].val = <<"+", << <<"@", <<"x">>>>, <<"@", <<"d", "x">>>> >> >>

SyntaxErrorPending == pc = "loop" /\ rederr[1] = "SyntaxError"

\* C24: when the callback of a reduce raises SyntaxError, the stack, the
\* tokens, the token index, the state index and the conflict stack are as
\* before the reduce, and the next turn of the loop takes the stuck path
\* without accepting: the error hook is called, and when it declines the
\* engine pops a conflict record if one is left and ends the call if not
C24_SyntaxErrorIsStuck ==
  [][/\ (ReduceStep /\ rfuncs(0 - act, ReduceArgs)[1] = "SyntaxError") =>
          /\ UNCHANGED <<heap, stack, tokens, tokidx, stidx, cstack>>
          /\ rederr'[1] = "SyntaxError"
          /\ pc' = "loop"
     /\ SyntaxErrorPending =>
          /\ hist'.errhooks = hist.errhooks + 1
          /\ hist'.accepts = hist.accepts
          /\ rederr' = None
          /\ IF Hook.ret
             THEN pc' = "loop" /\ cstack' = cstack /\ stack' = stack /\ tokens' = tokens
             ELSE IF cstack # <<>>
             THEN cstack' = Front(cstack) /\ pc' = "act"
             ELSE pc' = (IF mode = "permissive" THEN "rank" ELSE "raised")]_vars

\* a callback raised SyntaxError, the hook declined, and the engine went
\* on with the alternative of a conflict record
C24_Witness ==
  /\ pc = "act"
  /\ restored[1] = "popped"
  /\ self_rederr[1] = "SyntaxError"
  /\ hist.stucks >= 1

\* the engine is in its loop: at the top of a turn or about to carry out
\* the action of the turn
InLoop == pc \in {"loop", "act"}

\* C25: at every turn of the loop, on the first branch, on a branch resumed
\* from a conflict record and after a repair by the error hook, the stack
\* is not empty, its bottom entry is the entry of state 0, the state index
\* is the state of the top entry, and it indexes both tables
C25_StackShape ==
  InLoop =>
    LET L == heap[stack]
    IN /\ Len(L) >= 1
       /\ L[1] = [idx |-> 0, sym |-> "None", val |-> None]
       /\ stidx = L[Len(L)].idx
       /\ stidx \in DOMAIN terms
       /\ stidx \in DOMAIN nterms
       /\ \A i \in 1..Len(L) : L[i].idx \in DOMAIN terms \cap DOMAIN nterms

\* a turn of the loop on a branch resumed from a conflict record, after
\* the error hook completed the integral on top of the stack
C25_Witness ==
  /\ pc = "loop"
  /\ restored[1] = "popped"
  /\ hist.errhooks >= 2
  /\ Len(heap[stack]) >= 2
  /\ heap[stack][Len(heap[stack])].val[1] = "*"

\* the pattern of the table that the alternation tries first among those
\* matching at p
FirstPattern(t, p) ==
  TOKENS[CHOOSE i \in 1..Len(TOKENS) :
           /\ MatchLen(TOKENS[i], t, p) > 0
           /\ \A j \in 1..(i - 1) : MatchLen(TOKENS[j], t, p) = 0]

\* the text between the end of the token before token i and token i is
\* either empty or one match of the ignore pattern, the first to match there
GapBefore(t, T, i) ==
  LET from == IF i = 1 THEN 0 ELSE T[i - 1].pos + Len(T[i - 1].text)
  IN \/ from = T[i].pos
     \/ /\ from < T[i].pos
        /\ FirstPattern(t, from) = "ignore"
        /\ from + MatchLen("ignore", t, from) = T[i].pos

\* C26: every token the tokenizer emits for a pattern carries the name and
\* the matched text of the first pattern, in table order, that matches at
\* its position, even when a later pattern would match more text there; no
\* token is emitted for a match of the ignore pattern, which only separates
\* tokens
C26_FirstPatternWins ==
  pc = "lexed" =>
    LET T == heap[tokens]
    IN \A i \in 1..Len(T) :
         /\ T[i].sym # "ignore"
         /\ T[i].sym \notin {"$end", "$err"} =>
              /\ T[i].sym = FirstPattern(text, T[i].pos)
              /\ T[i].text = SubSeq(text, T[i].pos + 1,
                                    T[i].pos + MatchLen(T[i].sym, text, T[i].pos))
         /\ T[i].sym # "$end" => GapBefore(text, T, i)

C26_Witness ==
  /\ pc = "lexed"
  /\ text = <<"i", "f", "x">>
  /\ MatchLen("VAR", text, 0) = 3
  /\ heap[tokens][1] = Token("IF", <<"i", "f">>, 0)
  /\ heap[tokens][2] = Token("VAR", <<"x">>, 2)
\* the parse call is over: a value or the ranked triple was returned, or
\* SyntaxError was raised
Completed == pc \in {"done", "raised"}

\* branches of the call that have ended: in a stuck condition the error hook
\* declined, or in an acceptance
BranchesEnded == hist.stucks + hist.accepts

\* C27: a parse call that has entered the loop completes - it returns or it
\* raises SyntaxError; the branches that ended are at most one more than the
\* conflict records pushed; and the conflict stack grows only by one record,
\* on a step taken at a cell of the table that carries a conflict
C27_Terminates ==
  /\ [](BranchesEnded <= hist.pushes + 1)
  /\ [][Len(cstack') > Len(cstack) => ConflictCell /\ Len(cstack') = Len(cstack) + 1]_vars
  /\ (InLoop ~> Completed)

C27_Witness ==
  /\ Completed
  /\ mode = "strict"
  /\ hist.pushes >= 1
  /\ hist.stucks >= 1
  /\ BranchesEnded = hist.pushes + 1
\* ti is an index (from 0) into the token list T, and T ends in its only
\* $end token
TokensWellFormed(T, ti) ==
  /\ ti \in 0..(Len(T) - 1)
  /\ T[Len(T)].sym = "$end"
  /\ \A i \in 1..(Len(T) - 1) : T[i].sym # "$end"

\* C28: in every state of the loop the token index is an index into the
\* current token list and that list ends in its only $end token; no entry
\* of the stack was made by shifting $end; and every conflict record holds
\* a token list and a token index with the same two properties, so that a
\* restore keeps them
C28_TokensWellFormed ==
  InLoop =>
    /\ TokensWellFormed(heap[tokens], tokidx)
    /\ \A i \in 1..Len(heap[stack]) : heap[stack][i].sym # "$end"
    /\ \A k \in 1..Len(cstack) :
         /\ TokensWellFormed(heap[cstack[k].tokens], cstack[k].tokidx)
         /\ \A i \in 1..Len(heap[cstack[k].stack]) : heap[cstack[k].stack][i].sym # "$end"

C28_Witness ==
  /\ pc = "loop"
  /\ mode = "permissive"
  /\ hist.inserted >= 1
  /\ restored[1] = "popped"
  /\ heap[tokens][tokidx + 1].sym = "$end"
  /\ Len(heap[tokens]) > Len(tokenize(text))
\* a step of the loop that stays on its branch: no conflict record is popped
\* and no call begins
SameBranch == InLoop /\ Len(cstack') >= Len(cstack) /\ calls' = calls

\* an error position that is set goes with a cleared autocompleting flag
ErrorEndsCompletion(flag, pos) == pos # NoneIdx => ~flag

\* C29: in a permissive parse, (a) in every state of the loop, and in the
\* extra state of every conflict record, a set error position goes with a
\* false autocompleting flag, so a restore brings back a state with the
\* relation; (b) on a step that stays on its branch a set error position
\* is left as it is; (c) on such a step taken with the autocompleting flag
\* false the suggestions list is left as it is
C29_ErrorPosition ==
  /\ [](mode = "permissive" /\ InLoop =>
          /\ ErrorEndsCompletion(autocompleting, erridx)
          /\ \A k \in 1..Len(cstack) :
               ErrorEndsCompletion(cstack[k].estate[2], cstack[k].estate[3]))
  /\ [][mode = "permissive" /\ SameBranch =>
          /\ erridx # NoneIdx => erridx' = erridx
          /\ ~autocompleting => heap'[autocomplete'] = heap[autocomplete]]_vars

C29_Witness ==
  /\ pc = "loop"
  /\ mode = "permissive"
  /\ restored[1] = "popped"
  /\ erridx # NoneIdx
  /\ ~autocompleting
  /\ hist.errhooks >= 2
\* the list object that the collected result i records is the suggestions
\* list the parser is working with
RecordsLiveList(i) == parse_results[i][3] = autocomplete

\* C30: within a call, a step leaves every result collected so far in its
\* place with its value, its error position and the contents of its
\* suggestions list, whatever the step restores, inserts or appends
C30_ResultsFrozen ==
  [][calls' = calls =>
       /\ Len(parse_results') >= Len(parse_results)
       /\ \A i \in 1..Len(parse_results) :
            ResultsOf(heap', parse_results')[i] = ResultsOf(heap, parse_results)[i]]_vars

\* a result collected by the success hook, whose list the parser no longer
\* works with on the branch resumed from a record
C30_Witness ==
  /\ pc = "loop"
  /\ Len(parse_results) >= 1
  /\ hist.sucshooks >= 1
  /\ restored[1] = "popped"
  /\ \E i \in 1..Len(parse_results) :
       /\ parse_results[i][1] # None
       /\ ~RecordsLiveList(i)
  /\ hist.errhooks >= 1
====
